---- MODULE Spec2Model ----
(***************************************************************************)
(* Model of the calculation core of SolSum (services/powerLogic.ts): the   *)
(* solar-hours normalizer, the effective-hours resolver, the per-item      *)
(* energy calculator, the system totals and the autonomy projector; and of *)
(* the AI assistant (ChatBot) with its tool-call confirmation protocol.    *)
(*                                                                         *)
(* JavaScript numbers are modelled as exact rationals extended with NaN,   *)
(* +Infinity and -Infinity.  Binary rounding and the sign of zero are not  *)
(* modelled.  JavaScript values that reach the core untyped (a forecast    *)
(* field, a manual hours field) are modelled as tagged values, and the     *)
(* Number() conversion is computed from the tag and, for strings, by       *)
(* parsing the characters.                                                 *)
(***************************************************************************)
EXTENDS Integers, Sequences, FiniteSets, TLC

VARIABLES
    items,        \* PowerItem[] handed to the core
    charging,     \* ChargingSource[] handed to the core
    battery,      \* BatteryConfig handed to the core
    scenario,     \* scenario argument of calculateAutonomy
    solarForecast,\* optional solarForecast argument of calculateAutonomy
    currentSoC,   \* optional currentSoC argument of calculateAutonomy
    called,       \* the functions of the core that have been called on these inputs
    normResult,   \* record returned by normalizeAutoSolarHours
    hoursResult,  \* number returned by getEffectiveSolarHours
    totalsResult, \* record returned by calculateSystemTotals
    autonomyResult,\* record returned by calculateAutonomy
    efficiencyResult, \* number returned by getInverterEfficiency
    itemResult,   \* record returned by calculateItemEnergy
    sourceHours,  \* the hours h that calculateAutonomy used for each source
    chatOpen,     \* App state chatOpen, the isOpen prop of ChatBot
    chatMode,     \* App state chatMode (modeProp) and the mode state ChatBot syncs to it
    chatSession,  \* chatSessionRef.current
    pendingToolCall, \* ChatBot state pendingToolCall
    isTyping,     \* ChatBot state isTyping
    inflight,     \* handleSubmit invocations suspended at an await
    trace,        \* history: messages handed to a session and calls that became pending
    added,        \* history: invocations of onAddLoadItem / onAddChargingSource
    nextCallId,   \* id of the next functionCall a session issues
    nextSessionId, \* id of the next session createChatSession returns
    appBattery,   \* App state battery: location, geo, forecastMode, forecastMonth, forecast
    timer,        \* the pending setTimeout(updateForecast, 800) with the battery its closure holds
    requests      \* updateForecast invocations suspended at an await, oldest first

coreVars == <<items, charging, battery, scenario, solarForecast, currentSoC, called,
              normResult, hoursResult, totalsResult, autonomyResult,
              efficiencyResult, itemResult, sourceHours>>

chatVars == <<chatOpen, chatMode, chatSession, pendingToolCall, isTyping,
              inflight, trace, added, nextCallId, nextSessionId>>

appVars == <<appBattery, timer, requests>>

vars == <<coreVars, chatVars, appVars>>

----------------------------------------------------------------------------
(* JavaScript numbers: rationals n/d in lowest terms (d > 0), NaN, +-Infinity *)

Abs(i) == IF i < 0 THEN -i ELSE i

RECURSIVE Gcd(_, _)
Gcd(a, b) == IF b = 0 THEN a ELSE Gcd(b, a % b)

\* n/d reduced by the common divisor g, with a positive denominator
Reduce(n, d, g) ==
    IF d < 0 THEN [k |-> "fin", n |-> (-n) \div g, d |-> (-d) \div g]
    ELSE [k |-> "fin", n |-> n \div g, d |-> d \div g]

Rat(n, d) == Reduce(n, d, Gcd(Abs(n), Abs(d)))

Int2Num(i) == [k |-> "fin", n |-> i, d |-> 1]
NaN == [k |-> "nan", n |-> 0, d |-> 1]
PosInf == [k |-> "inf", n |-> 1, d |-> 1]
NegInf == [k |-> "inf", n |-> -1, d |-> 1]
Zero == Int2Num(0)

IsNaN(a) == a.k = "nan"
IsFinite(a) == a.k = "fin"
Sign(a) == IF a.n > 0 THEN 1 ELSE IF a.n < 0 THEN -1 ELSE 0

NNeg(a) == IF a.k = "nan" THEN NaN ELSE [a EXCEPT !.n = -a.n]

NAdd(a, b) ==
    IF a.k = "nan" \/ b.k = "nan" THEN NaN
    ELSE IF a.k = "inf" /\ b.k = "inf" THEN (IF a.n = b.n THEN a ELSE NaN)
    ELSE IF a.k = "inf" THEN a
    ELSE IF b.k = "inf" THEN b
    ELSE Rat(a.n * b.d + b.n * a.d, a.d * b.d)

NSub(a, b) == NAdd(a, NNeg(b))

NMul(a, b) ==
    IF a.k = "nan" \/ b.k = "nan" THEN NaN
    ELSE IF a.k = "inf" \/ b.k = "inf"
         THEN (IF Sign(a) * Sign(b) = 0 THEN NaN
               ELSE IF Sign(a) * Sign(b) > 0 THEN PosInf ELSE NegInf)
    ELSE Rat(a.n * b.n, a.d * b.d)

NDiv(a, b) ==
    IF a.k = "nan" \/ b.k = "nan" THEN NaN
    ELSE IF a.k = "inf" /\ b.k = "inf" THEN NaN
    ELSE IF a.k = "inf" THEN (IF Sign(a) * Sign(b) < 0 THEN NegInf ELSE PosInf)
    ELSE IF b.k = "inf" THEN Zero
    ELSE IF b.n = 0 THEN (IF a.n = 0 THEN NaN ELSE IF a.n > 0 THEN PosInf ELSE NegInf)
    ELSE Rat(a.n * b.d, a.d * b.n)

\* n1/d1 < n2/d2 for d1, d2 > 0, by integer parts and then the reciprocals of
\* the fractional parts, so that no product is formed
RECURSIVE RatLess(_, _, _, _)
RatLess(n1, d1, n2, d2) ==
    LET q1 == n1 \div d1
        q2 == n2 \div d2
        r1 == n1 % d1
        r2 == n2 % d2
    IN  IF q1 # q2 THEN q1 < q2
        ELSE IF r2 = 0 THEN FALSE
        ELSE IF r1 = 0 THEN TRUE
        ELSE RatLess(d2, r2, d1, r1)

\* a < b; every comparison with NaN is false
NLt(a, b) ==
    IF a.k = "nan" \/ b.k = "nan" THEN FALSE
    ELSE IF a.k = "inf" THEN a.n < 0 /\ ~(b.k = "inf" /\ b.n < 0)
    ELSE IF b.k = "inf" THEN b.n > 0
    ELSE RatLess(a.n, a.d, b.n, b.d)

NGt(a, b) == NLt(b, a)
NLe(a, b) == ~IsNaN(a) /\ ~IsNaN(b) /\ ~NLt(b, a)
NGe(a, b) == NLe(b, a)

NAbs(a) == IF a.k = "nan" THEN NaN ELSE [a EXCEPT !.n = Abs(a.n)]

\* Math.max / Math.min of two numbers
NMax(a, b) == IF IsNaN(a) \/ IsNaN(b) THEN NaN ELSE IF NLt(a, b) THEN b ELSE a
NMin(a, b) == IF IsNaN(a) \/ IsNaN(b) THEN NaN ELSE IF NLt(b, a) THEN b ELSE a

----------------------------------------------------------------------------
(* JavaScript values as they reach the core.  A string is the sequence of  *)
(* its characters.                                                         *)

Undefined == [t |-> "undefined", s |-> <<>>, v |-> Zero]
Null == [t |-> "null", s |-> <<>>, v |-> Zero]
Bool(b) == [t |-> "boolean", s |-> <<>>, v |-> IF b THEN Int2Num(1) ELSE Zero]
Str(s) == [t |-> "string", s |-> s, v |-> Zero]
NumV(v) == [t |-> "number", s |-> <<>>, v |-> v]
N100 == NumV(Int2Num(100))

Digits == <<"0", "1", "2", "3", "4", "5", "6", "7", "8", "9">>
IsDigit(c) == \E i \in 1..10 : Digits[i] = c
DigitVal(c) == (CHOOSE i \in 1..10 : Digits[i] = c) - 1

RECURSIVE TrimLeft(_)
TrimLeft(s) == IF s # <<>> /\ Head(s) = " " THEN TrimLeft(Tail(s)) ELSE s

RECURSIVE TrimRight(_)
TrimRight(s) ==
    IF s # <<>> /\ s[Len(s)] = " " THEN TrimRight(SubSeq(s, 1, Len(s) - 1)) ELSE s

RECURSIVE DigitsValue(_)
DigitsValue(s) ==
    IF s = <<>> THEN 0 ELSE 10 * DigitsValue(SubSeq(s, 1, Len(s) - 1)) + DigitVal(s[Len(s)])

RECURSIVE Pow10(_)
Pow10(k) == IF k = 0 THEN 1 ELSE 10 * Pow10(k - 1)

AllDigits(s) == \A i \in 1..Len(s) : IsDigit(s[i])

\* DecimalDigits . DecimalDigits with integer part ip and fraction part fp
DecimalLiteral(ip, fp) ==
    IF (ip = <<>> /\ fp = <<>>) \/ ~AllDigits(ip) \/ ~AllDigits(fp) THEN NaN
    ELSE Rat(DigitsValue(ip) * Pow10(Len(fp)) + DigitsValue(fp), Pow10(Len(fp)))

\* a literal s whose decimal points stand at the positions dots
LiteralWithDots(s, dots) ==
    IF dots = {} THEN (IF s # <<>> /\ AllDigits(s) THEN Int2Num(DigitsValue(s)) ELSE NaN)
    ELSE IF Cardinality(dots) > 1 THEN NaN
    ELSE DecimalLiteral(SubSeq(s, 1, (CHOOSE i \in dots : TRUE) - 1),
                        SubSeq(s, (CHOOSE i \in dots : TRUE) + 1, Len(s)))

\* StrUnsignedDecimalLiteral without exponent: "Infinity", digits[.digits] or .digits
UnsignedLiteral(s) ==
    IF s = <<"I", "n", "f", "i", "n", "i", "t", "y">> THEN PosInf
    ELSE LiteralWithDots(s, {i \in 1..Len(s) : s[i] = "."})

\* a string without surrounding white space: empty, or an optionally signed literal
TrimmedToNumber(t) ==
    IF t = <<>> THEN Zero
    ELSE IF Head(t) = "-" THEN NNeg(UnsignedLiteral(Tail(t)))
    ELSE IF Head(t) = "+" THEN UnsignedLiteral(Tail(t))
    ELSE UnsignedLiteral(t)

\* Number(string): StringToNumber of ECMAScript, decimal literals only
StringToNumber(s) == TrimmedToNumber(TrimRight(TrimLeft(s)))

\* Number(x)
ToNumber(x) ==
    CASE x.t = "undefined" -> NaN
      [] x.t = "null" -> Zero
      [] x.t = "boolean" -> x.v
      [] x.t = "number" -> x.v
      [] x.t = "string" -> StringToNumber(x.s)

\* ToBoolean(x): the truthiness tested by !x, x || y, x && y and x ? a : b
ToBoolean(x) ==
    CASE x.t = "undefined" -> FALSE
      [] x.t = "null" -> FALSE
      [] x.t = "boolean" -> x.v # Zero
      [] x.t = "number" -> ~IsNaN(x.v) /\ x.v # Zero
      [] x.t = "string" -> x.s # <<>>

\* v || dflt for a number v: NaN and 0 are falsy
OrNum(v, dflt) == IF ~IsNaN(v) /\ v # Zero THEN v ELSE dflt

\* Number(x) || dflt
NumberOr(x, dflt) == OrNum(ToNumber(x), dflt)

\* x || dflt for an untyped value x (the value itself is kept, not its number)
OrRaw(x, dflt) == IF ToBoolean(x) THEN x ELSE dflt

----------------------------------------------------------------------------
(* services/powerLogic.ts                                                  *)

DEFAULT_FALLBACK == Int2Num(4)

\* the field of the forecast that the forecast mode selects
RawSelected(b) ==
    IF b.forecastMode = "now" THEN b.forecast.nowHours ELSE b.forecast.sunnyHours

\* battery.forecast.loading || !battery.forecast.fetched
ForecastLoading_FetchedIgnored(f) == ToBoolean(f.loading)
ForecastLoading(f) == ToBoolean(f.loading) \/ ~ToBoolean(f.fetched)

\* raw === undefined || raw === null || raw === ''
RawMissing(raw) == raw = Undefined \/ raw = Null \/ raw = Str(<<>>)

\* !isFinite(val) || val < 0 || val > 15
HoursOutOfRange_UpperExclusive(val) ==
    ~IsFinite(val) \/ NLt(val, Zero) \/ NGe(val, Int2Num(15))
HoursOutOfRange(val) == ~IsFinite(val) \/ NLt(val, Zero) \/ NGt(val, Int2Num(15))

\* lines 186-191: the record for a raw value converted to the number val
NormalizedNumber_InvalidKeepsValue(val) ==
    IF HoursOutOfRange(val)
    THEN [status |-> "invalid", value |-> NumV(val), fallbackValue |-> DEFAULT_FALLBACK]
    ELSE [status |-> "ok", value |-> NumV(val), fallbackValue |-> val]
NormalizedNumber(val) ==
    IF HoursOutOfRange(val)
    THEN [status |-> "invalid", value |-> Null, fallbackValue |-> DEFAULT_FALLBACK]
    ELSE [status |-> "ok", value |-> NumV(val), fallbackValue |-> val]

\* lines 182-191: the record for the selected raw field
NormalizedRaw(raw) ==
    IF RawMissing(raw)
    THEN [status |-> "nodata", value |-> Null, fallbackValue |-> DEFAULT_FALLBACK]
    ELSE NormalizedNumber(ToNumber(raw))

normalizeAutoSolarHours(b) ==
    IF ~b.forecast.present
    THEN [status |-> "nodata", value |-> Null, fallbackValue |-> DEFAULT_FALLBACK]
    ELSE IF ForecastLoading(b.forecast)
    THEN [status |-> "loading", value |-> Null, fallbackValue |-> DEFAULT_FALLBACK]
    ELSE NormalizedRaw(RawSelected(b))

\* lines 198-207 with the forecast value tested for truthiness instead of null
ResolvedHours_TruthyValue(source, manualHours, norm) ==
    IF ToBoolean(source.autoSolar) /\ source.type = "solar"
    THEN IF norm.status = "ok" /\ ToBoolean(norm.value) THEN norm.value.v
         ELSE IF NGt(manualHours, Zero) THEN manualHours ELSE norm.fallbackValue
    ELSE IF source.type = "solar" /\ manualHours = Zero THEN norm.fallbackValue
    ELSE manualHours

\* lines 198-207: the hours for manual hours manualHours and normalizer record norm
ResolvedHours(source, manualHours, norm) ==
    IF ToBoolean(source.autoSolar) /\ source.type = "solar"
    THEN IF norm.status = "ok" /\ norm.value # Null THEN norm.value.v
         ELSE IF NGt(manualHours, Zero) THEN manualHours ELSE norm.fallbackValue
    ELSE IF source.type = "solar" /\ manualHours = Zero THEN norm.fallbackValue
    ELSE manualHours

getEffectiveSolarHours(source, b) ==
    ResolvedHours(source, NumberOr(source.hours, Zero), normalizeAutoSolarHours(b))

\* lines 151-156 with each boundary counted in the lower band
EfficiencyBand_BoundaryLower(loadRatio) ==
    IF NLe(loadRatio, Rat(5, 100)) THEN Rat(75, 100)
    ELSE IF NLe(loadRatio, Rat(15, 100)) THEN Rat(85, 100)
    ELSE IF NLe(loadRatio, Rat(40, 100)) THEN Rat(90, 100)
    ELSE IF NLe(loadRatio, Rat(80, 100)) THEN Rat(94, 100)
    ELSE Rat(91, 100)

\* lines 151-156: the band of loadRatio
EfficiencyBand(loadRatio) ==
    IF NLt(loadRatio, Rat(5, 100)) THEN Rat(75, 100)
    ELSE IF NLt(loadRatio, Rat(15, 100)) THEN Rat(85, 100)
    ELSE IF NLt(loadRatio, Rat(40, 100)) THEN Rat(90, 100)
    ELSE IF NLt(loadRatio, Rat(80, 100)) THEN Rat(94, 100)
    ELSE Rat(91, 100)

\* lines 150-156 for w = Number(watts) || 0
EfficiencyOf(w) ==
    IF NLe(w, Zero) THEN Int2Num(1) ELSE EfficiencyBand(NDiv(w, Int2Num(2000)))

getInverterEfficiency(watts) == EfficiencyOf(NumberOr(watts, Zero))

AC_LOADS == "AC Loads (Inverter)"
DC_LOADS == "DC Loads (Native/DCDC)"

\* { wh: wh || 0, ah: (wh / v) || 0, efficiency }
EnergyRecord(wh, v, efficiency) ==
    [wh |-> OrNum(wh, Zero), ah |-> OrNum(NDiv(wh, v), Zero), efficiency |-> efficiency]

\* lines 218-221: the AC branch for the inverter efficiency of watts
AcEnergy(watts, efficiency, hours, v, dutyMultiplier, qty) ==
    EnergyRecord(
        NMul(NMul(NMul(NDiv(watts, OrNum(efficiency, Rat(85, 100))), hours), dutyMultiplier), qty),
        v, efficiency)

\* lines 217-225 for the coerced fields
ItemEnergy(category, watts, hours, v, dutyMultiplier, qty) ==
    IF category = AC_LOADS
    THEN AcEnergy(watts, getInverterEfficiency(NumV(watts)), hours, v, dutyMultiplier, qty)
    ELSE EnergyRecord(NMul(NMul(NMul(watts, hours), dutyMultiplier), qty), v, Int2Num(1))

calculateItemEnergy(item, systemVoltage) ==
    ItemEnergy(item.category,
               NumberOr(item.watts, Zero),
               NumberOr(item.hours, Zero),
               NumberOr(systemVoltage, Int2Num(24)),
               NDiv(NumberOr(item.dutyCycle, Int2Num(100)), Int2Num(100)),
               NumberOr(item.quantity, Int2Num(1)))

\* the items.forEach loop skipping every load whose enabled field is not true
RECURSIVE ConsumedWh_SkipsAbsent(_, _)
ConsumedWh_SkipsAbsent(its, systemVoltage) ==
    IF its = <<>> THEN Zero
    ELSE IF its[Len(its)].enabled # Bool(TRUE)
    THEN ConsumedWh_SkipsAbsent(SubSeq(its, 1, Len(its) - 1), systemVoltage)
    ELSE NAdd(ConsumedWh_SkipsAbsent(SubSeq(its, 1, Len(its) - 1), systemVoltage),
              OrNum(calculateItemEnergy(its[Len(its)], NumV(systemVoltage)).wh, Zero))

\* the items.forEach loop shared by calculateSystemTotals and calculateAutonomy
RECURSIVE ConsumedWh(_, _)
ConsumedWh(its, systemVoltage) ==
    IF its = <<>> THEN Zero
    ELSE IF its[Len(its)].enabled = Bool(FALSE)
    THEN ConsumedWh(SubSeq(its, 1, Len(its) - 1), systemVoltage)
    ELSE NAdd(ConsumedWh(SubSeq(its, 1, Len(its) - 1), systemVoltage),
              OrNum(calculateItemEnergy(its[Len(its)], NumV(systemVoltage)).wh, Zero))

\* one source's term input * hours * efficiency * qty
SourceWh(source, hours) ==
    NMul(NMul(NMul(NumberOr(source.input, Zero), hours),
              NumberOr(source.efficiency, Rat(85, 100))),
         NumberOr(source.quantity, Int2Num(1)))

\* lines 245-247: the hours of a source in calculateSystemTotals
TotalsHours(source, b) ==
    IF source.type = "solar" THEN getEffectiveSolarHours(source, b)
    ELSE NumberOr(source.hours, Zero)

\* the charging.forEach loop of calculateSystemTotals
RECURSIVE GeneratedWh(_, _)
GeneratedWh(srcs, b) ==
    IF srcs = <<>> THEN Zero
    ELSE IF srcs[Len(srcs)].enabled = Bool(FALSE)
    THEN GeneratedWh(SubSeq(srcs, 1, Len(srcs) - 1), b)
    ELSE NAdd(GeneratedWh(SubSeq(srcs, 1, Len(srcs) - 1), b),
              SourceWh(srcs[Len(srcs)], TotalsHours(srcs[Len(srcs)], b)))

NaNToZero(v) == IF IsNaN(v) THEN Zero ELSE v

\* lines 268-276: the returned record
TotalsRecord(dailyWhConsumed, dailyAhConsumed, dailyWhGenerated, dailyAhGenerated, netWh, finalSoC) ==
    [dailyWhConsumed |-> NaNToZero(dailyWhConsumed),
     dailyAhConsumed |-> NaNToZero(dailyAhConsumed),
     dailyWhGenerated |-> NaNToZero(dailyWhGenerated),
     dailyAhGenerated |-> NaNToZero(dailyAhGenerated),
     netWh |-> NaNToZero(netWh),
     netAh |-> NaNToZero(NSub(dailyAhGenerated, dailyAhConsumed)),
     finalSoC |-> NaNToZero(finalSoC)]

\* lines 264-266 with endWh not capped at capacityWh
FinalSoC_NoUpperClamp(initialSoC, capacityWh, netWh) ==
    NMul(NDiv(NMax(Zero, NAdd(NMul(NDiv(initialSoC, Int2Num(100)), capacityWh), netWh)),
              OrNum(capacityWh, Int2Num(1))),
         Int2Num(100))

\* lines 264-266: startWh, endWh and finalSoC
FinalSoC(initialSoC, capacityWh, netWh) ==
    NMul(NDiv(NMin(capacityWh,
                   NMax(Zero, NAdd(NMul(NDiv(initialSoC, Int2Num(100)), capacityWh), netWh))),
              OrNum(capacityWh, Int2Num(1))),
         Int2Num(100))

\* lines 257-276 once netWh and capacityWh are known
TotalsFromNet(systemVoltage, dailyWhConsumed, dailyWhGenerated, netWh, capacityWh, initialSoC) ==
    TotalsRecord(dailyWhConsumed,
                 OrNum(NDiv(dailyWhConsumed, systemVoltage), Zero),
                 dailyWhGenerated,
                 OrNum(NDiv(dailyWhGenerated, systemVoltage), Zero),
                 netWh,
                 FinalSoC(initialSoC, capacityWh, netWh))

\* lines 257-276 once the two sums are known
TotalsFromSums(systemVoltage, dailyWhConsumed, dailyWhGenerated, capacityAh, initialSoC) ==
    TotalsFromNet(systemVoltage, dailyWhConsumed, dailyWhGenerated,
                  NSub(dailyWhGenerated, dailyWhConsumed),
                  NMul(capacityAh, systemVoltage),
                  initialSoC)

\* lines 234-276 for systemVoltage = Number(battery.voltage) || 24
TotalsAtVoltage(its, srcs, b, systemVoltage) ==
    TotalsFromSums(systemVoltage,
                   ConsumedWh(its, systemVoltage),
                   GeneratedWh(srcs, b),
                   NumberOr(b.capacityAh, Int2Num(400)),
                   NumberOr(b.initialSoC, Int2Num(100)))

calculateSystemTotals(its, srcs, b) ==
    TotalsAtVoltage(its, srcs, b, NumberOr(b.voltage, Int2Num(24)))

\* solarForecast?.f : undefined when the argument is not passed
OptField(sf, f) == IF sf.present THEN sf[f] ELSE Undefined

\* line 327 with a forecast of cloudy hours taken as it is when there is one
CloudHours_ForecastFirst(forecastCloudy, sunnyHours) ==
    IF NGt(forecastCloudy, Zero) THEN forecastCloudy
    ELSE NMax(NMul(sunnyHours, Rat(50, 100)), NMul(sunnyHours, Rat(20, 100)))

\* line 327: Math.max(forecastCloudy, sunnyHours * 0.50, sunnyHours * 0.20)
CloudHours(forecastCloudy, sunnyHours) ==
    NMax(NMax(forecastCloudy, NMul(sunnyHours, Rat(50, 100))), NMul(sunnyHours, Rat(20, 100)))

\* line 323: forecastCloudy
ForecastCloudy(source, sf) ==
    IF ToBoolean(source.autoSolar) /\ ToBoolean(OptField(sf, "cloudy"))
    THEN ToNumber(sf.cloudy)
    ELSE Zero

\* lines 309-330 with the current scenario left on the manual hours
ScenarioHoursFrom_CurrentManual(source, b, scen, sf, manual, sunnyHours) ==
    CASE scen = "peak" -> sunnyHours
      [] scen = "cloud" -> CloudHours(ForecastCloudy(source, sf), sunnyHours)
      [] OTHER -> manual

\* lines 309-330: the hours by scenario, for the manual and the sunny hours
ScenarioHoursFrom(source, b, scen, sf, manual, sunnyHours) ==
    CASE scen = "peak" -> sunnyHours
      [] scen = "cloud" -> CloudHours(ForecastCloudy(source, sf), sunnyHours)
      [] scen = "current" -> getEffectiveSolarHours(source, b)
      [] OTHER -> manual

\* line 307: sunnyHours
SunnyHours(source, sf, manual) ==
    IF ToBoolean(source.autoSolar) /\ ToBoolean(OptField(sf, "sunny"))
    THEN ToNumber(sf.sunny)
    ELSE OrNum(manual, Int2Num(4))

\* lines 306-330 for manual = Number(source.hours) || 0
ScenarioHoursManual(source, b, scen, sf, manual) ==
    ScenarioHoursFrom(source, b, scen, sf, manual, SunnyHours(source, sf, manual))

\* lines 303-331: h of one source in calculateAutonomy
ScenarioHours(source, b, scen, sf) ==
    IF source.type = "solar"
    THEN ScenarioHoursManual(source, b, scen, sf, NumberOr(source.hours, Zero))
    ELSE NumberOr(source.hours, Zero)

\* the charging.forEach loop of calculateAutonomy (scenario other than zero)
RECURSIVE ScenarioGeneratedWh(_, _, _, _)
ScenarioGeneratedWh(srcs, b, scen, sf) ==
    IF srcs = <<>> THEN Zero
    ELSE IF srcs[Len(srcs)].enabled = Bool(FALSE)
    THEN ScenarioGeneratedWh(SubSeq(srcs, 1, Len(srcs) - 1), b, scen, sf)
    ELSE NAdd(ScenarioGeneratedWh(SubSeq(srcs, 1, Len(srcs) - 1), b, scen, sf),
              SourceWh(srcs[Len(srcs)], ScenarioHours(srcs[Len(srcs)], b, scen, sf)))

\* the value of h at line 336 for each source the loop reaches
UsedHours(srcs, b, scen, sf) ==
    [i \in 1..Len(srcs) |->
        IF scen = "zero" \/ srcs[i].enabled = Bool(FALSE)
        THEN [used |-> FALSE, h |-> Zero]
        ELSE [used |-> TRUE, h |-> ScenarioHours(srcs[i], b, scen, sf)]]

\* netWhPerDay >= 0
NetNonNegative_Inverted(net) == NLe(net, Zero)
NetNonNegative(net) == NGe(net, Zero)

\* lines 351-353: basisSoC
BasisSoC(b, scen, soc) ==
    IF scen = "current"
    THEN (IF soc # Undefined THEN soc ELSE OrRaw(b.initialSoC, N100))
    ELSE N100

\* lines 358-362: the record returned under a deficit
RunwayRecord(days, netWhPerDay) ==
    IF IsFinite(days) /\ NLt(days, Int2Num(9999))
    THEN [days |-> days, hours |-> NMul(days, Int2Num(24)), netWh |-> netWhPerDay]
    ELSE [days |-> PosInf, hours |-> PosInf, netWh |-> netWhPerDay]

\* lines 341-362 for the scenario's net, the capacity and the basis state of charge
AutonomyFromNet(netWhPerDay, totalCapacityWh, basisSoC) ==
    IF NetNonNegative(netWhPerDay)
    THEN [days |-> PosInf, hours |-> PosInf, netWh |-> netWhPerDay]
    ELSE RunwayRecord(
             NDiv(NMul(totalCapacityWh, NDiv(ToNumber(basisSoC), Int2Num(100))),
                  NAbs(netWhPerDay)),
             netWhPerDay)

\* AutonomyAtVoltage with the sources summed in the zero scenario as well
AutonomyAtVoltage_ZeroUsesSources(its, srcs, b, scen, sf, soc, systemVoltage) ==
    AutonomyFromNet(
        NSub(ScenarioGeneratedWh(srcs, b, IF scen = "zero" THEN "current" ELSE scen, sf),
             ConsumedWh(its, systemVoltage)),
        NMul(NumberOr(b.capacityAh, Int2Num(400)), systemVoltage),
        BasisSoC(b, scen, soc))

\* lines 288-362 for systemVoltage = Number(battery.voltage) || 24
AutonomyAtVoltage(its, srcs, b, scen, sf, soc, systemVoltage) ==
    AutonomyFromNet(
        NSub(IF scen = "zero" THEN Zero ELSE ScenarioGeneratedWh(srcs, b, scen, sf),
             ConsumedWh(its, systemVoltage)),
        NMul(NumberOr(b.capacityAh, Int2Num(400)), systemVoltage),
        BasisSoC(b, scen, soc))

calculateAutonomy(its, srcs, b, scen, sf, soc) ==
    AutonomyAtVoltage(its, srcs, b, scen, sf, soc, NumberOr(b.voltage, Int2Num(24)))

----------------------------------------------------------------------------
(* Inputs                                                                  *)

MaxStrLen == 2
MaxItems == 2
MaxSources == 2

\* character sequences of length n over alphabet A
RECURSIVE SeqsOfLen(_, _)
SeqsOfLen(A, n) ==
    IF n = 0 THEN {<<>>}
    ELSE {Append(s, c) : s \in SeqsOfLen(A, n - 1), c \in A}

SeqsUpTo(A, n) == UNION {SeqsOfLen(A, k) : k \in 0..n}

StrAlphabet == {" ", "0", "7", "a"}

\* strings with a fraction, a sign or a unit, beyond the enumerated ones
ExtraStrings ==
    {<<"7", ".", "2">>, <<"-", "1">>, <<".", "5">>, <<"2", "0">>, <<"1", "5", ".">>,
     <<"7", "h">>, <<".">>, <<"-">>, <<"1", ".", "2", ".", "3">>}

\* values a forecast field can hold when the normalizer reads it
ForecastNumbers ==
    {Zero, Rat(1, 20), Rat(72, 10), Int2Num(15), Rat(151, 10), Int2Num(20),
     Int2Num(-1), NaN, PosInf, NegInf}

ForecastRaws ==
    {Undefined, Null, Bool(TRUE), Bool(FALSE)}
    \cup {NumV(v) : v \in ForecastNumbers}
    \cup {Str(s) : s \in SeqsUpTo(StrAlphabet, MaxStrLen) \cup ExtraStrings}

Flags == {Undefined, Bool(TRUE), Bool(FALSE)}

NoForecast ==
    [present |-> FALSE, loading |-> Undefined, fetched |-> Undefined,
     nowHours |-> Undefined, sunnyHours |-> Undefined, cloudyHours |-> Undefined]

Forecast(loading, fetched, now, sunny, cloudy) ==
    [present |-> TRUE, loading |-> loading, fetched |-> fetched,
     nowHours |-> now, sunnyHours |-> sunny, cloudyHours |-> cloudy]

Battery(capacityAh, voltage, initialSoC, mode, forecast) ==
    [capacityAh |-> capacityAh, voltage |-> voltage, initialSoC |-> initialSoC,
     forecastMode |-> mode, forecast |-> forecast]

Modes == {"now", "monthAvg"}
Scenarios == {"current", "peak", "cloud", "zero"}

N(i) == NumV(Int2Num(i))
Q(n, d) == NumV(Rat(n, d))

NoSolarForecast == [present |-> FALSE, sunny |-> Undefined, cloudy |-> Undefined, now |-> Undefined]

NoNorm == [status |-> "none", value |-> Null, fallbackValue |-> Zero]
NoTotals ==
    [dailyWhConsumed |-> Zero, dailyAhConsumed |-> Zero, dailyWhGenerated |-> Zero,
     dailyAhGenerated |-> Zero, netWh |-> Zero, netAh |-> Zero, finalSoC |-> Zero]
NoAutonomy == [days |-> Zero, hours |-> Zero, netWh |-> Zero]
NoEnergy == [wh |-> Zero, ah |-> Zero, efficiency |-> Zero]

\* no pending tool call (pendingToolCall is null)
NoCall == [name |-> "none", id |-> 0, session |-> 0]

\* chatSessionRef.current is null
NoSession == [id |-> 0, mode |-> "none"]

\* the assistant before it is first opened: closed, general mode, no session,
\* nothing pending, nothing sent
ChatIdle ==
    /\ chatOpen = FALSE
    /\ chatMode = "general"
    /\ chatSession = NoSession
    /\ pendingToolCall = NoCall
    /\ isTyping = FALSE
    /\ inflight = <<>>
    /\ trace = <<>>
    /\ added = <<>>
    /\ nextCallId = 1
    /\ nextSessionId = 1

\* battery.geo is undefined
NoGeo == [present |-> FALSE, name |-> ""]

\* a forecast field that is undefined
NoReading == [present |-> FALSE, place |-> "", month |-> ""]

\* prev.forecast || { fetched: false }
UnfetchedForecast ==
    [fetched |-> FALSE, loading |-> FALSE, error |-> FALSE,
     nowHours |-> NoReading, sunnyHours |-> NoReading, cloudyHours |-> NoReading]

\* no timer is pending
NoTimer == [armed |-> FALSE, location |-> "", geo |-> NoGeo,
            forecastMode |-> "now", forecastMonth |-> ""]

\* the App is not mounted: no effect has run and nothing is pending
ForecastIdle ==
    /\ appBattery = [location |-> "", geo |-> NoGeo, forecastMode |-> "now",
                     forecastMonth |-> "", forecast |-> UnfetchedForecast]
    /\ timer = NoTimer
    /\ requests = <<>>

NoResults ==
    /\ called = {}
    /\ normResult = NoNorm
    /\ hoursResult = Zero
    /\ totalsResult = NoTotals
    /\ autonomyResult = NoAutonomy
    /\ efficiencyResult = Zero
    /\ itemResult = NoEnergy
    /\ sourceHours = <<>>

----------------------------------------------------------------------------
(* The calls                                                               *)

CallNormalize ==
    /\ "normalize" \notin called
    /\ normResult' = normalizeAutoSolarHours(battery)
    /\ called' = called \cup {"normalize"}
    /\ UNCHANGED chatVars
    /\ UNCHANGED appVars
    /\ UNCHANGED <<items, charging, battery, scenario, solarForecast, currentSoC,
                   hoursResult, totalsResult, autonomyResult, efficiencyResult, itemResult,
                   sourceHours>>

\* the normalizer applied to batteries whose forecast fields hold any value
InitNorm ==
    /\ items = <<>>
    /\ charging = <<>>
    /\ \E m \in Modes :
          \/ battery = Battery(N(400), N(24), N(100), m, NoForecast)
          \/ \E l \in Flags, f \in Flags, now \in ForecastRaws, sunny \in ForecastRaws :
                battery = Battery(N(400), N(24), N(100), m, Forecast(l, f, now, sunny, Undefined))
    /\ scenario = "current"
    /\ solarForecast = NoSolarForecast
    /\ currentSoC = Undefined
    /\ NoResults
    /\ ChatIdle
    /\ ForecastIdle

NextNorm == CallNormalize

SpecNorm == InitNorm /\ [][NextNorm]_vars

----------------------------------------------------------------------------
(* Claims about normalizeAutoSolarHours, checked under SpecNorm            *)

Normalized == "normalize" \in called
FetchedNotLoading ==
    /\ battery.forecast.present
    /\ ToBoolean(battery.forecast.fetched)
    /\ ~ToBoolean(battery.forecast.loading)

\* C1: a forecast that is present with loading == true or fetched == false is
\* normalized to status 'loading' with value null, whatever nowHours,
\* sunnyHours and forecastMode hold.
C1_LoadingMasksFields ==
    (/\ Normalized
     /\ battery.forecast.present
     /\ (battery.forecast.loading = Bool(TRUE) \/ battery.forecast.fetched = Bool(FALSE)))
    => (normResult.status = "loading" /\ normResult.value = Null)

\* a fetch that has not completed while the selected field already holds a plausible number
C1_Witness ==
    /\ Normalized
    /\ battery.forecast.present
    /\ battery.forecast.loading = Bool(FALSE)
    /\ battery.forecast.fetched = Bool(FALSE)
    /\ RawSelected(battery) = Q(72, 10)
    /\ normResult.status = "loading"

\* a raw value that is missing, blank or not numeric: undefined, null, a boolean,
\* a string that is empty after trimming, or text that is no number
BlankOrNonNumeric(raw) ==
    \/ raw.t \in {"undefined", "null", "boolean"}
    \/ raw.t = "string" /\ (TrimLeft(raw.s) = <<>> \/ IsNaN(ToNumber(raw)))
    \/ raw.t = "number" /\ IsNaN(raw.v)

\* C2: with the forecast fetched and not loading, an undefined, null or empty
\* selected field gives 'nodata' with value null; no missing, blank or
\* non-numeric raw value gives 'ok'; and 'ok' with value 0 comes only from a raw
\* value that is the number 0.
C2_NoDataNeverBecomesZero ==
    (Normalized /\ FetchedNotLoading) =>
        /\ RawMissing(RawSelected(battery)) =>
              (normResult.status = "nodata" /\ normResult.value = Null)
        /\ BlankOrNonNumeric(RawSelected(battery)) => normResult.status # "ok"
        /\ (normResult.status = "ok" /\ normResult.value = NumV(Zero)) =>
              RawSelected(battery) = NumV(Zero)

C4_ValueIffOk ==
    Normalized => ((normResult.value # Null) <=> (normResult.status = "ok"))

\* a number above the range is rejected and the record carries no value
C4_Witness ==
    /\ Normalized /\ FetchedNotLoading
    /\ RawSelected(battery) = N(20)
    /\ normResult.status = "invalid"
    /\ normResult.value = Null

\* C5: the fallbackValue of every record returned is 4.0, for every status.
C5_FallbackAlwaysFour ==
    Normalized => normResult.fallbackValue = Int2Num(4)

----------------------------------------------------------------------------
(* getEffectiveSolarHours on one source, under SpecHours                   *)

Source(type, autoSolar, hours, input, efficiency, quantity, enabled) ==
    [type |-> type, autoSolar |-> autoSolar, hours |-> hours, input |-> input,
     efficiency |-> efficiency, quantity |-> quantity, enabled |-> enabled]

\* values of a source's manual hours field
ManualRaws ==
    {Undefined, N(0), N(5), N(-3), Q(1, 2), NumV(NaN), NumV(PosInf), NumV(NegInf),
     Str(<<>>), Str(<<"a">>), Str(<<"5">>)}

HoursSources ==
    {Source(t, a, h, N(100), Q(85, 100), N(1), Undefined) :
        t \in {"solar", "wind"}, a \in Flags, h \in ManualRaws}

HoursForecastRaws == {Undefined, N(0), Q(72, 10), N(20), Str(<<" ">>)}

HoursBatteries ==
    {Battery(N(400), N(24), N(100), m, NoForecast) : m \in Modes}
    \cup {Battery(N(400), N(24), N(100), m, Forecast(Bool(l), Bool(f), now, sunny, Undefined)) :
            m \in Modes, l \in BOOLEAN, f \in BOOLEAN,
            now \in HoursForecastRaws, sunny \in HoursForecastRaws}

CallGetEffectiveSolarHours ==
    /\ "hours" \notin called
    /\ Len(charging) = 1
    /\ hoursResult' = getEffectiveSolarHours(charging[1], battery)
    /\ called' = called \cup {"hours"}
    /\ UNCHANGED chatVars
    /\ UNCHANGED appVars
    /\ UNCHANGED <<items, charging, battery, scenario, solarForecast, currentSoC,
                   normResult, totalsResult, autonomyResult, efficiencyResult, itemResult,
                   sourceHours>>

InitHours ==
    /\ items = <<>>
    /\ charging \in {<<src>> : src \in HoursSources}
    /\ battery \in HoursBatteries
    /\ scenario = "current"
    /\ solarForecast = NoSolarForecast
    /\ currentSoC = Undefined
    /\ NoResults
    /\ ChatIdle
    /\ ForecastIdle

NextHours == CallNormalize \/ CallGetEffectiveSolarHours

SpecHours == InitHours /\ [][NextHours]_vars

Resolved == {"normalize", "hours"} \subseteq called
ManualHours == NumberOr(charging[1].hours, Zero)
AutoSolar == ToBoolean(charging[1].autoSolar) /\ charging[1].type = "solar"

\* C6: for a solar source with the auto flag set, a normalizer status 'ok' makes
\* the resolver return the normalizer's value (0 included); any other status
\* makes it return the manual hours when they are > 0 and 4.0 otherwise.
C6_AutoSolarHours ==
    (Resolved /\ AutoSolar) =>
        IF normResult.status = "ok"
        THEN hoursResult = normResult.value.v
        ELSE hoursResult = (IF NGt(ManualHours, Zero) THEN ManualHours ELSE Int2Num(4))

\* a forecast of 0 hours wins over manual hours of 5
C6_Witness ==
    /\ Resolved /\ AutoSolar
    /\ normResult.status = "ok"
    /\ normResult.value = N(0)
    /\ ManualHours = Int2Num(5)
    /\ hoursResult = Zero

\* C7: for a source whose auto flag is not set the resolver returns the manual
\* hours when they are non-zero, and 4.0 for a solar source with manual hours 0,
\* whatever the status and value of the forecast.
C7_ManualIndependentOfForecast ==
    (Resolved /\ ~ToBoolean(charging[1].autoSolar)) =>
        hoursResult = (IF charging[1].type = "solar" /\ ManualHours = Zero
                       THEN Int2Num(4) ELSE ManualHours)

\* C8: the resolver returns a non-negative number of hours for every source and
\* battery configuration.
C8_HoursNonNegative ==
    "hours" \in called => NGe(hoursResult, Zero)

----------------------------------------------------------------------------
(* calculateSystemTotals and calculateAutonomy on the same inputs, under Spec *)

Item(category, watts, hours, dutyCycle, quantity, enabled) ==
    [category |-> category, watts |-> watts, hours |-> hours, dutyCycle |-> dutyCycle,
     quantity |-> quantity, enabled |-> enabled]

\* 396 Wh DC, 1500 W AC for half an hour, 6000 Wh DC
EngineItems ==
    {Item(DC_LOADS, N(50), N(24), N(33), N(1), Undefined),
     Item(AC_LOADS, N(1500), Q(1, 2), N(100), N(1), Bool(TRUE)),
     Item(DC_LOADS, N(250), N(24), N(100), N(1), Undefined)}

\* manual solar (5015 Wh), auto solar with no manual hours, wind
EngineSources ==
    {Source("solar", Bool(FALSE), N(5), N(1180), Q(85, 100), N(1), Undefined),
     Source("solar", Bool(TRUE), N(0), N(200), Q(85, 100), N(1), Bool(TRUE)),
     Source("wind", Undefined, N(10), N(100), N(1), N(1), Undefined)}

EngineForecasts ==
    {NoForecast,
     Forecast(Bool(FALSE), Bool(TRUE), N(0), N(6), N(2)),
     Forecast(Bool(TRUE), Bool(FALSE), Q(72, 10), N(6), N(2))}

EngineBatteries ==
    {Battery(N(400), N(24), N(100), m, f) : m \in Modes, f \in EngineForecasts}

SolarForecastArg(sunny, cloudy) ==
    [present |-> TRUE, sunny |-> sunny, cloudy |-> cloudy, now |-> Undefined]

\* the optional fifth argument: absent, or sunny/cloudy hours as the summary panel passes them
SolarForecastArgs ==
    {NoSolarForecast, SolarForecastArg(N(6), N(2)), SolarForecastArg(Undefined, Undefined)}

CurrentSoCArgs == {Undefined, N(50)}

CallTotals ==
    /\ "totals" \notin called
    /\ totalsResult' = calculateSystemTotals(items, charging, battery)
    /\ called' = called \cup {"totals"}
    /\ UNCHANGED chatVars
    /\ UNCHANGED appVars
    /\ UNCHANGED <<items, charging, battery, scenario, solarForecast, currentSoC,
                   normResult, hoursResult, autonomyResult, efficiencyResult, itemResult,
                   sourceHours>>

\* the summary panel projects autonomy once the application has computed the totals
CallAutonomy ==
    /\ "totals" \in called
    /\ "autonomy" \notin called
    /\ \E scen \in Scenarios, sf \in SolarForecastArgs, soc \in CurrentSoCArgs :
          /\ scenario' = scen
          /\ solarForecast' = sf
          /\ currentSoC' = soc
          /\ autonomyResult' = calculateAutonomy(items, charging, battery, scen, sf, soc)
          /\ sourceHours' = UsedHours(charging, battery, scen, sf)
    /\ called' = called \cup {"autonomy"}
    /\ UNCHANGED chatVars
    /\ UNCHANGED appVars
    /\ UNCHANGED <<items, charging, battery, normResult, hoursResult, totalsResult,
                   efficiencyResult, itemResult>>

Init ==
    /\ items \in SeqsUpTo(EngineItems, MaxItems)
    /\ charging \in SeqsUpTo(EngineSources, MaxSources)
    /\ battery \in EngineBatteries
    /\ scenario = "current"
    /\ solarForecast = NoSolarForecast
    /\ currentSoC = Undefined
    /\ NoResults
    /\ ChatIdle
    /\ ForecastIdle

Next == CallTotals \/ CallAutonomy

Spec == Init /\ [][Next]_vars

\* C9: in each scenario, a scenario net of >= 0 Wh per day gives days and hours
\* of Infinity, and a finite runway is returned only for a strictly negative net.
C9_NonNegativeNetIsInfinite ==
    "autonomy" \in called =>
        /\ NGe(autonomyResult.netWh, Zero) =>
              (autonomyResult.days = PosInf /\ autonomyResult.hours = PosInf)
        /\ IsFinite(autonomyResult.days) => NLt(autonomyResult.netWh, Zero)

\* a cloud scenario that still ends the day with a surplus
C9_Witness ==
    /\ "autonomy" \in called
    /\ scenario = "cloud"
    /\ items # <<>>
    /\ NGt(autonomyResult.netWh, Zero)
    /\ autonomyResult.days = PosInf

TotalsSurplus ==
    NGe(totalsResult.dailyWhGenerated, totalsResult.dailyWhConsumed)

----------------------------------------------------------------------------
(* calculateItemEnergy and calculateSystemTotals on malformed and extreme   *)
(* inputs, under SpecTotals                                                *)

SYSTEM_MGMT == "System Mgmt"

\* 396 Wh, a load of 2.4 MWh per day, a load with non-numeric hours
TotalsItems ==
    {Item(DC_LOADS, N(50), N(24), N(33), N(1), Undefined),
     Item(SYSTEM_MGMT, N(10000), N(24), N(100), N(10), Bool(TRUE)),
     Item(AC_LOADS, N(1500), NumV(NaN), Undefined, Undefined, Undefined)}

\* a generator of 2.4 MWh per day, a solar source with no numeric field
TotalsSources ==
    {Source("generator", Undefined, N(24), N(10000), N(1), N(10), Bool(TRUE)),
     Source("solar", Bool(TRUE), Str(<<"a">>), NumV(NaN), Undefined, Undefined, Undefined)}


TotalsBatteries ==
    {Battery(c, v, s, "now", NoForecast) :
        c \in {Undefined, N(0), N(-400), N(400)},
        v \in {Undefined, N(0), N(-24), N(12)},
        s \in {Undefined, N(0), N(-20), N(50), N(150)}}

\* a row of the energy table, rendered once the application has computed the
\* totals: the first load at the battery's voltage
CallItemEnergy ==
    /\ "totals" \in called
    /\ "item" \notin called
    /\ items # <<>>
    /\ itemResult' = calculateItemEnergy(items[1], battery.voltage)
    /\ called' = called \cup {"item"}
    /\ UNCHANGED chatVars
    /\ UNCHANGED appVars
    /\ UNCHANGED <<items, charging, battery, scenario, solarForecast, currentSoC,
                   normResult, hoursResult, totalsResult, autonomyResult, efficiencyResult,
                   sourceHours>>

InitTotals ==
    /\ items \in SeqsUpTo(TotalsItems, MaxItems)
    /\ charging \in SeqsUpTo(TotalsSources, MaxSources)
    /\ battery \in TotalsBatteries
    /\ scenario = "current"
    /\ solarForecast = NoSolarForecast
    /\ currentSoC = Undefined
    /\ NoResults
    /\ ChatIdle
    /\ ForecastIdle

NextTotals == CallItemEnergy \/ CallTotals

SpecTotals == InitTotals /\ [][NextTotals]_vars

\* C11: the finalSoC returned by calculateSystemTotals lies in [0, 100] for
\* every input: initialSoC above 100 or below 0, zero, negative or missing
\* capacity and voltage, and any surplus or deficit.
C11_FinalSoCInRange ==
    "totals" \in called =>
        (NLe(Zero, totalsResult.finalSoC) /\ NLe(totalsResult.finalSoC, Int2Num(100)))

\* an initial state of charge of 150 % and a surplus end the day at 100 %
C11_Witness ==
    /\ "totals" \in called
    /\ battery.initialSoC = N(150)
    /\ battery.capacityAh = N(400)
    /\ NGt(totalsResult.netWh, Zero)
    /\ totalsResult.finalSoC = Int2Num(100)

----------------------------------------------------------------------------
(* calculateItemEnergy on one load whose fields hold any value, under SpecItem *)


InitItem ==
    /\ \E c \in {DC_LOADS, AC_LOADS, SYSTEM_MGMT},
          w \in {Undefined, N(0), N(-5), N(50), N(1500), NumV(PosInf), NumV(NaN),
                 Str(<<"a">>)},
          h \in {Undefined, N(0), Q(1, 2), N(24), NumV(PosInf)},
          d \in {Undefined, N(0), N(33), N(100), NumV(NaN), NumV(PosInf)},
          q \in {Undefined, N(0), Q(1, 2), N(1), N(2), N(-1)} :
          items = <<Item(c, w, h, d, q, Undefined)>>
    /\ charging = <<>>
    /\ \E v \in {N(0), N(12), N(24)} : battery = Battery(N(400), v, N(100), "now", NoForecast)
    /\ scenario = "current"
    /\ solarForecast = NoSolarForecast
    /\ currentSoC = Undefined
    /\ NoResults
    /\ ChatIdle
    /\ ForecastIdle

SpecItem == InitItem /\ [][NextTotals]_vars

AllFinite(r) == \A f \in DOMAIN r : IsFinite(r[f])

\* C12: calculateItemEnergy and calculateSystemTotals return no NaN and no
\* +/-Infinity in any field of their record, for every input including missing,
\* non-numeric and infinite numeric fields.
C12_OutputsFinite ==
    /\ "item" \in called => AllFinite(itemResult)
    /\ "totals" \in called => AllFinite(totalsResult)

----------------------------------------------------------------------------
(* getInverterEfficiency on any wattage, under SpecEfficiency              *)

MaxWattStep == 40

\* multiples of 50 W up to 2000 W, the neighbours of the band boundaries, and
\* values that are no positive number
EfficiencyWatts ==
    {N(50 * k) : k \in -2..MaxWattStep}
    \cup {N(1), N(99), N(101), N(299), N(301), N(799), N(801), N(1599), N(1601), N(5000)}
    \cup {Q(1, 2), Undefined, Null, NumV(NaN), NumV(PosInf), NumV(NegInf), Str(<<"a">>)}

CallGetInverterEfficiency ==
    /\ "efficiency" \notin called
    /\ items # <<>>
    /\ efficiencyResult' = getInverterEfficiency(items[1].watts)
    /\ called' = called \cup {"efficiency"}
    /\ UNCHANGED chatVars
    /\ UNCHANGED appVars
    /\ UNCHANGED <<items, charging, battery, scenario, solarForecast, currentSoC,
                   normResult, hoursResult, totalsResult, autonomyResult, itemResult,
                   sourceHours>>

InitEfficiency ==
    /\ \E w \in EfficiencyWatts : items = <<Item(AC_LOADS, w, N(1), N(100), N(1), Undefined)>>
    /\ charging = <<>>
    /\ battery = Battery(N(400), N(24), N(100), "now", NoForecast)
    /\ scenario = "current"
    /\ solarForecast = NoSolarForecast
    /\ currentSoC = Undefined
    /\ NoResults
    /\ ChatIdle
    /\ ForecastIdle

NextEfficiency == CallGetInverterEfficiency

SpecEfficiency == InitEfficiency /\ [][NextEfficiency]_vars

\* the band of a positive wattage, by the wattages at which loadRatio reaches
\* 0.05, 0.15, 0.40 and 0.80 of the 2000 W inverter
BandOfWatts(w) ==
    IF NLt(w, Int2Num(100)) THEN Rat(75, 100)
    ELSE IF NLt(w, Int2Num(300)) THEN Rat(85, 100)
    ELSE IF NLt(w, Int2Num(800)) THEN Rat(90, 100)
    ELSE IF NLt(w, Int2Num(1600)) THEN Rat(94, 100)
    ELSE Rat(91, 100)

\* C13: getInverterEfficiency returns 1 for every wattage <= 0 and for every
\* non-numeric wattage; for w > 0 it returns the band of w / 2000 (0.75 below
\* 0.05, 0.85 below 0.15, 0.90 below 0.40, 0.94 below 0.80, else 0.91), a
\* boundary belonging to the higher band; the result is always in (0, 1].
C13_EfficiencyBands ==
    "efficiency" \in called =>
        /\ efficiencyResult =
              (IF NGt(ToNumber(items[1].watts), Zero)
               THEN BandOfWatts(ToNumber(items[1].watts))
               ELSE Int2Num(1))
        /\ NGt(efficiencyResult, Zero)
        /\ NLe(efficiencyResult, Int2Num(1))

\* 100 W is exactly 0.05 of the inverter and falls in the 0.85 band
C13_Witness ==
    /\ "efficiency" \in called
    /\ items[1].watts = N(100)
    /\ efficiencyResult = Rat(85, 100)

----------------------------------------------------------------------------
(* calculateAutonomy as the summary panel calls it, on one source whose     *)
(* hours and forecast hold any value, under SpecPanel                      *)

\* the forecast argument that renderAutonomyRow builds from the battery
PanelForecast(b) ==
    IF b.forecast.present
    THEN SolarForecastArg(b.forecast.sunnyHours, b.forecast.cloudyHours)
    ELSE NoSolarForecast

\* one autonomy row of the summary panel; currentSoC is not passed
RenderAutonomyRow ==
    /\ "totals" \in called
    /\ "autonomy" \notin called
    /\ \E scen \in Scenarios :
          /\ scenario' = scen
          /\ autonomyResult' =
                calculateAutonomy(items, charging, battery, scen, PanelForecast(battery), Undefined)
          /\ sourceHours' = UsedHours(charging, battery, scen, PanelForecast(battery))
    /\ solarForecast' = PanelForecast(battery)
    /\ currentSoC' = Undefined
    /\ called' = called \cup {"autonomy"}
    /\ UNCHANGED chatVars
    /\ UNCHANGED appVars
    /\ UNCHANGED <<items, charging, battery, normResult, hoursResult, totalsResult,
                   efficiencyResult, itemResult>>


PanelForecasts ==
    {NoForecast}
    \cup {Forecast(Bool(FALSE), Bool(TRUE), now, sunny, cloudy) :
            now \in {Undefined, N(3)},
            sunny \in {Undefined, N(0), N(6), NumV(PosInf)},
            cloudy \in {Undefined, N(0), N(1), N(5), NumV(NaN)}}

InitPanel ==
    /\ items = <<Item(DC_LOADS, N(50), N(24), N(33), N(1), Undefined)>>
    /\ charging \in {<<src>> : src \in HoursSources}
    /\ \E m \in Modes, f \in PanelForecasts : battery = Battery(N(400), N(24), N(100), m, f)
    /\ scenario = "current"
    /\ solarForecast = NoSolarForecast
    /\ currentSoC = Undefined
    /\ NoResults
    /\ ChatIdle
    /\ ForecastIdle

NextPanel == CallTotals \/ RenderAutonomyRow

SpecPanel == InitPanel /\ [][NextPanel]_vars

\* the baseline hours of a solar source: the sunny hours of the forecast for an
\* auto source when there are any, else the manual hours, else 4.0
BaselineHours(source, sf) == SunnyHours(source, sf, NumberOr(source.hours, Zero))

\* C14: in the cloud scenario the hours used for every enabled solar source
\* are >= 0.20 times that source's baseline hours, for every forecast, mode
\* and manual-hours value.
C14_CloudFloor ==
    ("autonomy" \in called /\ scenario = "cloud") =>
        \A i \in 1..Len(charging) :
            (charging[i].type = "solar" /\ charging[i].enabled # Bool(FALSE)) =>
                /\ sourceHours[i].used
                /\ NGe(sourceHours[i].h,
                       NMul(BaselineHours(charging[i], solarForecast), Rat(20, 100)))

\* a forecast of one cloudy hour against six sunny hours: the source is given
\* three hours, above the floor of 1.2
C14_Witness ==
    /\ "autonomy" \in called
    /\ scenario = "cloud"
    /\ charging[1].type = "solar"
    /\ charging[1].autoSolar = Bool(TRUE)
    /\ solarForecast = SolarForecastArg(N(6), N(1))
    /\ sourceHours[1] = [used |-> TRUE, h |-> Int2Num(3)]

----------------------------------------------------------------------------
(* Claims about calculateItemEnergy, checked under SpecItem                 *)

\* a field that holds a finite number
FiniteField(x) == x.t = "number" /\ IsFinite(x.v)

\* a field that holds a finite number within [lo, hi]
FieldWithin(x, lo, hi) == FiniteField(x) /\ NLe(Int2Num(lo), x.v) /\ NLe(x.v, Int2Num(hi))

\* the energy the specification gives for watts w, hours h, duty cycle d (in
\* percent) and quantity q
ExpectedWh(category, w, h, d, q) ==
    IF category = AC_LOADS
    THEN NMul(NMul(NMul(NDiv(w, getInverterEfficiency(NumV(w))), h), NDiv(d, Int2Num(100))), q)
    ELSE NMul(NMul(NMul(w, h), NDiv(d, Int2Num(100))), q)

\* the first load has non-negative finite watts and hours
PlainWattsAndHours ==
    /\ FiniteField(items[1].watts) /\ NGe(items[1].watts.v, Zero)
    /\ FiniteField(items[1].hours) /\ NGe(items[1].hours.v, Zero)

\* the record returned for the first load follows the formula of the
\* specification, for its own duty cycle and quantity
FollowsFormula ==
    /\ itemResult.wh = ExpectedWh(items[1].category, items[1].watts.v, items[1].hours.v,
                                  items[1].dutyCycle.v, items[1].quantity.v)
    /\ items[1].category # AC_LOADS => itemResult.efficiency = Int2Num(1)
    /\ NGe(itemResult.wh,
           calculateItemEnergy([items[1] EXCEPT !.category = DC_LOADS], battery.voltage).wh)
    /\ itemResult.ah = NDiv(itemResult.wh, ToNumber(battery.voltage))

\* C17: for an AC load wh = (watts / getInverterEfficiency(watts)) * hours *
\* (dutyCycle / 100) * qty, for every other category wh = watts * hours *
\* (dutyCycle / 100) * qty with efficiency 1; an AC load's wh is never less
\* than the wh of the same load as a DC load; and ah = wh / voltage for
\* voltage > 0.  Stated for duty cycles within 0..100 and quantities >= 1.
C17_ItemEnergyFormula ==
    (/\ "item" \in called
     /\ PlainWattsAndHours
     /\ FieldWithin(items[1].dutyCycle, 0, 100)
     /\ FiniteField(items[1].quantity) /\ NGe(items[1].quantity.v, Int2Num(1))
     /\ NGt(ToNumber(battery.voltage), Zero)) =>
        FollowsFormula

\* the same formula for duty cycles within 1..100
FormulaForPositiveDuty ==
    (/\ "item" \in called
     /\ PlainWattsAndHours
     /\ FieldWithin(items[1].dutyCycle, 1, 100)
     /\ FiniteField(items[1].quantity) /\ NGe(items[1].quantity.v, Int2Num(1))
     /\ NGt(ToNumber(battery.voltage), Zero)) =>
        FollowsFormula

\* the duty cycle in percent as the specification reads the field: the number
\* when it is finite, else 0
DutyOrZero(x) == IF FiniteField(x) THEN x.v ELSE Zero

\* C18: the duty multiplier is exactly dutyCycle / 100 for every duty cycle in
\* 0..100, so a duty cycle of 0 gives wh = 0 and ah = 0, and a missing or
\* non-finite duty cycle counts as 0, not as 100.
C18_DutyMultiplierExact ==
    (/\ "item" \in called
     /\ PlainWattsAndHours
     /\ ~FiniteField(items[1].dutyCycle) \/ FieldWithin(items[1].dutyCycle, 0, 100)
     /\ FiniteField(items[1].quantity) /\ NGe(items[1].quantity.v, Int2Num(1))) =>
        /\ itemResult.wh = ExpectedWh(items[1].category, items[1].watts.v, items[1].hours.v,
                                      DutyOrZero(items[1].dutyCycle), items[1].quantity.v)
        /\ DutyOrZero(items[1].dutyCycle) = Zero =>
              (itemResult.wh = Zero /\ itemResult.ah = Zero)

\* the quantity as the specification reads the field: 1 when it is absent or
\* below 1, else the number
QuantityFloored(x) ==
    IF x = Undefined THEN Int2Num(1) ELSE NMax(Int2Num(1), x.v)

\* C19: the quantity defaults to 1 when absent and is floored at 1: a quantity
\* of 0, a fraction or a negative number is computed as quantity 1.
C19_QuantityFlooredAtOne ==
    (/\ "item" \in called
     /\ PlainWattsAndHours
     /\ FieldWithin(items[1].dutyCycle, 1, 100)
     /\ items[1].quantity = Undefined \/ FiniteField(items[1].quantity)) =>
        itemResult.wh = ExpectedWh(items[1].category, items[1].watts.v, items[1].hours.v,
                                  items[1].dutyCycle.v, QuantityFloored(items[1].quantity))

----------------------------------------------------------------------------
(* Enabled and disabled loads and sources, under SpecEnabled                *)

\* two counted loads (enabled absent, enabled true) and two disabled ones
EnabledItems ==
    {Item(DC_LOADS, N(50), N(24), N(33), N(1), Undefined),
     Item(AC_LOADS, N(1500), Q(1, 2), N(100), N(1), Bool(TRUE)),
     Item(DC_LOADS, N(250), N(24), N(100), N(1), Bool(FALSE)),
     Item(AC_LOADS, N(1500), N(24), N(100), N(2), Bool(FALSE))}

\* two counted sources (enabled absent, enabled true) and two disabled ones
EnabledSources ==
    {Source("solar", Bool(FALSE), N(5), N(1180), Q(85, 100), N(1), Undefined),
     Source("wind", Undefined, N(10), N(100), N(1), N(1), Bool(TRUE)),
     Source("solar", Bool(TRUE), N(0), N(200), Q(85, 100), N(1), Bool(FALSE)),
     Source("generator", Undefined, N(24), N(1000), N(1), N(1), Bool(FALSE))}

EnabledBatteries ==
    {Battery(N(400), N(24), N(100), "monthAvg", NoForecast),
     Battery(N(400), N(24), N(100), "monthAvg",
             Forecast(Bool(FALSE), Bool(TRUE), N(0), N(6), N(2)))}

InitEnabled ==
    /\ items \in SeqsUpTo(EnabledItems, MaxItems)
    /\ charging \in SeqsUpTo(EnabledSources, MaxSources)
    /\ battery \in EnabledBatteries
    /\ scenario = "current"
    /\ solarForecast = NoSolarForecast
    /\ currentSoC = Undefined
    /\ NoResults
    /\ ChatIdle
    /\ ForecastIdle

SpecEnabled == InitEnabled /\ [][NextPanel]_vars

\* the entries whose enabled field is true or absent, and the other entries
Counted(seq) == SelectSeq(seq, LAMBDA x : x.enabled \in {Undefined, Bool(TRUE)})
NotDisabled(seq) == SelectSeq(seq, LAMBDA x : x.enabled # Bool(FALSE))

\* the sum of the energy of every load of a list
RECURSIVE SumItemWh(_, _)
SumItemWh(its, v) ==
    IF its = <<>> THEN Zero
    ELSE NAdd(SumItemWh(SubSeq(its, 1, Len(its) - 1), v),
              calculateItemEnergy(its[Len(its)], v).wh)

\* the sum of the energy of every source of a list, at the hours of the totals
RECURSIVE SumSourceWh(_, _)
SumSourceWh(srcs, b) ==
    IF srcs = <<>> THEN Zero
    ELSE NAdd(SumSourceWh(SubSeq(srcs, 1, Len(srcs) - 1), b),
              SourceWh(srcs[Len(srcs)], TotalsHours(srcs[Len(srcs)], b)))

\* C20: a load or source with enabled === false contributes nothing to
\* calculateSystemTotals and to any calculateAutonomy scenario: both results
\* are those of the lists without the disabled entries, whatever the other
\* fields of the disabled entries hold; and every load or source whose enabled
\* field is true or absent is counted.
C20_DisabledContributeNothing ==
    /\ "totals" \in called =>
          /\ totalsResult =
                calculateSystemTotals(NotDisabled(items), NotDisabled(charging), battery)
          /\ totalsResult.dailyWhConsumed = SumItemWh(Counted(items), battery.voltage)
          /\ totalsResult.dailyWhGenerated = SumSourceWh(Counted(charging), battery)
    /\ "autonomy" \in called =>
          /\ autonomyResult =
                calculateAutonomy(NotDisabled(items), NotDisabled(charging), battery,
                                  scenario, solarForecast, currentSoC)
          /\ \A i \in 1..Len(charging) :
                sourceHours[i].used <=>
                    (scenario # "zero" /\ charging[i].enabled \in {Undefined, Bool(TRUE)})
          /\ scenario = "zero" =>
                autonomyResult.netWh = NNeg(SumItemWh(Counted(items), battery.voltage))

\* a disabled 1500 W load next to a counted load whose enabled field is absent:
\* the totals show the 396 Wh of the counted load only
C20_Witness ==
    /\ {"totals", "autonomy"} \subseteq called
    /\ Len(items) = 2
    /\ items[1].enabled = Bool(FALSE)
    /\ items[1].watts = N(1500)
    /\ items[2].enabled = Undefined
    /\ \E i \in 1..Len(charging) : charging[i].enabled = Bool(FALSE)
    /\ totalsResult.dailyWhConsumed = Int2Num(396)
    /\ autonomyResult.netWh = Int2Num(-396)

----------------------------------------------------------------------------
(* The AI assistant (ChatBot component) and its tool-call protocol.          *)
(* A handler runs to its first await in one step; what follows the await is  *)
(* a separate step, so other events can come in between.  A message is       *)
(* recorded in the trace when sendMessage / sendMessageStream is called.     *)

MaxCalls == 2       \* functionCalls the sessions issue
MaxSessions == 2    \* sessions createChatSession returns
MaxInFlight == 2    \* handleSubmit invocations suspended at the same time
MaxTrace == 4       \* trace length up to which the user submits text

ChatModes == {"general", "load", "source"}

\* services/geminiService.ts: the load and source sessions carry one tool each
\* and are forced to call it; the general session has no tools
createChatSession(m, id) == [id |-> id, mode |-> m]

HasTools(session) == session.mode \in {"load", "source"}

ToolOf(session) == IF session.mode = "load" THEN "addLoadItem" ELSE "addChargingSource"

SentEvent(kind, name, id, result, session) ==
    [ev |-> "sent", kind |-> kind, name |-> name, id |-> id, result |-> result,
     session |-> session]

PendingEvent(call) ==
    [ev |-> "pending", kind |-> "functionCall", name |-> call.name, id |-> call.id,
     result |-> "", session |-> call.session]

\* result is the leading word of response.result: "Success", "User cancelled."
\* or "Correction"
FunctionResponse(call, result, session) ==
    SentEvent("functionResponse", call.name, call.id, result, session.id)

PlainText(session) == SentEvent("text", "", 0, "", session.id)

RemoveAt(seq, k) == [i \in 1..(Len(seq) - 1) |-> IF i < k THEN seq[i] ELSE seq[i + 1]]

\* App: the launcher opens the assistant in general mode, the AI-add buttons
\* of the two tables open it in load or source mode.  ChatBot: a changed
\* modeProp resets mode, isTyping, the session and the pending call; while
\* open, a missing session (or one of another mode) is created anew
OpenChat(m) ==
    /\ ~chatOpen \/ m # chatMode
    /\ chatOpen' = TRUE
    /\ chatMode' = m
    /\ IF m # chatMode \/ chatSession = NoSession
       THEN /\ nextSessionId <= MaxSessions
            /\ chatSession' = createChatSession(m, nextSessionId)
            /\ nextSessionId' = nextSessionId + 1
            /\ pendingToolCall' = NoCall
            /\ isTyping' = IF m # chatMode THEN FALSE ELSE isTyping
       ELSE UNCHANGED <<chatSession, nextSessionId, pendingToolCall, isTyping>>
    /\ UNCHANGED <<inflight, trace, added, nextCallId>>
    /\ UNCHANGED coreVars
    /\ UNCHANGED appVars

\* onClose: the close button, and the timer handleConfirmAction starts
CloseChat ==
    /\ chatOpen
    /\ chatOpen' = FALSE
    /\ UNCHANGED <<chatMode, chatSession, pendingToolCall, isTyping, inflight, trace,
                   added, nextCallId, nextSessionId>>
    /\ UNCHANGED coreVars
    /\ UNCHANGED appVars

\* handleSubmit with no pending call, from the form or a QuickSuggestion
\* (the suggestions stay clickable while isTyping): the text is sent and the
\* handler waits for the reply
SubmitText ==
    /\ chatOpen
    /\ chatSession # NoSession
    /\ pendingToolCall = NoCall
    /\ Len(inflight) < MaxInFlight
    /\ Len(trace) < MaxTrace
    /\ isTyping' = TRUE
    /\ trace' = Append(trace, PlainText(chatSession))
    /\ inflight' = Append(inflight, [stage |-> "reply", session |-> chatSession])
    /\ UNCHANGED <<chatOpen, chatMode, chatSession, pendingToolCall, added,
                   nextCallId, nextSessionId>>
    /\ UNCHANGED coreVars
    /\ UNCHANGED appVars

\* handleSubmit while a call is pending (typed correction): the pending call
\* is cleared, a functionResponse with its name and id is sent, and the
\* handler waits for that send to return
SubmitCorrection ==
    /\ chatOpen
    /\ chatSession # NoSession
    /\ pendingToolCall # NoCall
    /\ Len(inflight) < MaxInFlight
    /\ Len(trace) < MaxTrace
    /\ pendingToolCall' = NoCall
    /\ isTyping' = TRUE
    /\ trace' = Append(trace, FunctionResponse(pendingToolCall, "Correction", chatSession))
    /\ inflight' = Append(inflight, [stage |-> "toolResponse", session |-> chatSession])
    /\ UNCHANGED <<chatOpen, chatMode, chatSession, added, nextCallId, nextSessionId>>
    /\ UNCHANGED coreVars
    /\ UNCHANGED appVars

\* the correction after its first await: the correction text goes to
\* chatSessionRef.current as plain text; if the first send threw, or the
\* session is gone by now, the catch block drops the session
CorrectionResumes ==
    \E k \in 1..Len(inflight) :
        /\ inflight[k].stage = "toolResponse"
        /\ \/ /\ chatSession # NoSession
              /\ trace' = Append(trace, PlainText(chatSession))
              /\ inflight' = [inflight EXCEPT ![k] = [stage |-> "reply", session |-> chatSession]]
              /\ UNCHANGED <<chatSession, isTyping>>
           \/ /\ chatSession' = NoSession
              /\ isTyping' = FALSE
              /\ inflight' = RemoveAt(inflight, k)
              /\ UNCHANGED trace
        /\ UNCHANGED <<chatOpen, chatMode, pendingToolCall, added, nextCallId, nextSessionId>>
        /\ UNCHANGED coreVars
        /\ UNCHANGED appVars

\* a reply carries a functionCall: the call is intercepted and held for the
\* user, nothing is added
InterceptToolCall_AutoExecute(k) ==
    /\ pendingToolCall' = NoCall
    /\ added' = Append(added, [name |-> ToolOf(inflight[k].session), id |-> nextCallId])
    /\ trace' = Append(trace, PendingEvent([name |-> ToolOf(inflight[k].session),
                                            id |-> nextCallId,
                                            session |-> inflight[k].session.id]))

InterceptToolCall(k) ==
    /\ pendingToolCall' = [name |-> ToolOf(inflight[k].session), id |-> nextCallId,
                           session |-> inflight[k].session.id]
    /\ added' = added
    /\ trace' = Append(trace, PendingEvent([name |-> ToolOf(inflight[k].session),
                                            id |-> nextCallId,
                                            session |-> inflight[k].session.id]))

\* handleSubmit after the await of the reply, the reply holding a functionCall
ReceiveToolCall ==
    \E k \in 1..Len(inflight) :
        /\ inflight[k].stage = "reply"
        /\ HasTools(inflight[k].session)
        /\ nextCallId <= MaxCalls
        /\ InterceptToolCall(k)
        /\ nextCallId' = nextCallId + 1
        /\ isTyping' = FALSE
        /\ inflight' = RemoveAt(inflight, k)
        /\ UNCHANGED <<chatOpen, chatMode, chatSession, nextSessionId>>
        /\ UNCHANGED coreVars
        /\ UNCHANGED appVars

\* the reply holds no functionCall: text in general mode, the "No tool call
\* returned" notice in the spec modes
ReceiveText ==
    \E k \in 1..Len(inflight) :
        /\ inflight[k].stage = "reply"
        /\ isTyping' = FALSE
        /\ inflight' = RemoveAt(inflight, k)
        /\ UNCHANGED <<chatOpen, chatMode, chatSession, pendingToolCall, trace, added,
                       nextCallId, nextSessionId>>
        /\ UNCHANGED coreVars
        /\ UNCHANGED appVars

\* the awaited send throws: the catch block drops the session
RequestFails ==
    \E k \in 1..Len(inflight) :
        /\ inflight[k].stage = "reply"
        /\ chatSession' = NoSession
        /\ isTyping' = FALSE
        /\ inflight' = RemoveAt(inflight, k)
        /\ UNCHANGED <<chatOpen, chatMode, pendingToolCall, trace, added,
                       nextCallId, nextSessionId>>
        /\ UNCHANGED coreVars
        /\ UNCHANGED appVars

\* Confirm Add: the add callback of the pending tool runs, the pending call
\* is cleared and a functionResponse with its name and id is sent
handleConfirmAction ==
    /\ chatOpen
    /\ pendingToolCall # NoCall
    /\ chatSession # NoSession
    /\ added' = Append(added, [name |-> pendingToolCall.name, id |-> pendingToolCall.id])
    /\ pendingToolCall' = NoCall
    /\ trace' = Append(trace, FunctionResponse(pendingToolCall, "Success", chatSession))
    /\ UNCHANGED <<chatOpen, chatMode, chatSession, isTyping, inflight,
                   nextCallId, nextSessionId>>
    /\ UNCHANGED coreVars
    /\ UNCHANGED appVars

\* Cancel: the pending call is cleared and a functionResponse with its name
\* and id is sent; nothing is added
handleCancelAction ==
    /\ chatOpen
    /\ pendingToolCall # NoCall
    /\ chatSession # NoSession
    /\ pendingToolCall' = NoCall
    /\ trace' = Append(trace, FunctionResponse(pendingToolCall, "User cancelled.", chatSession))
    /\ UNCHANGED <<chatOpen, chatMode, chatSession, isTyping, inflight, added,
                   nextCallId, nextSessionId>>
    /\ UNCHANGED coreVars
    /\ UNCHANGED appVars

InitChat ==
    /\ items = <<>>
    /\ charging = <<>>
    /\ battery = Battery(N(100), N(24), N(50), "now", Undefined)
    /\ scenario = "current"
    /\ solarForecast = NoSolarForecast
    /\ currentSoC = Undefined
    /\ NoResults
    /\ ChatIdle
    /\ ForecastIdle

NextChat ==
    \/ \E m \in ChatModes : OpenChat(m)
    \/ CloseChat
    \/ SubmitText
    \/ SubmitCorrection
    \/ CorrectionResumes
    \/ ReceiveToolCall
    \/ ReceiveText
    \/ RequestFails
    \/ handleConfirmAction
    \/ handleCancelAction

SpecChat == InitChat /\ [][NextChat]_vars

----------------------------------------------------------------------------
(* Claims about the assistant, checked under SpecChat *)

\* the trace entry j is a functionResponse with the name and id of entry i
Answers(j, i) ==
    /\ trace[j].ev = "sent"
    /\ trace[j].kind = "functionResponse"
    /\ trace[j].name = trace[i].name
    /\ trace[j].id = trace[i].id

\* the trace entry j is a message sent to the session that issued the call of entry i
SentToSessionOf(j, i) == trace[j].ev = "sent" /\ trace[j].session = trace[i].session

\* entry i of the trace records the tool call of added[k] becoming pending
BecamePending(i, k) ==
    /\ trace[i].ev = "pending"
    /\ trace[i].name = added[k].name
    /\ trace[i].id = added[k].id

\* entry j of the trace is the functionResponse that Confirm sends for added[k]
ConfirmedAt(j, k) ==
    /\ trace[j].ev = "sent"
    /\ trace[j].kind = "functionResponse"
    /\ trace[j].result = "Success"
    /\ trace[j].name = added[k].name
    /\ trace[j].id = added[k].id

\* C15: the add callbacks run only in the user's Confirm of a pending tool
\* call: every invocation belongs to a call that had become pending and to
\* the one "Success" functionResponse that Confirm sent for it, every
\* "Success" functionResponse has its invocation, and no call is added twice;
\* receiving a functionCall, Cancel, a correction, a mode switch and a
\* session error add nothing
C15_AddOnlyOnConfirm ==
    /\ \A k \in 1..Len(added) :
           /\ Cardinality({j \in 1..Len(trace) : ConfirmedAt(j, k)}) = 1
           /\ \E i \in 1..Len(trace), j \in 1..Len(trace) :
                  i < j /\ BecamePending(i, k) /\ ConfirmedAt(j, k)
           /\ \A k2 \in 1..Len(added) : added[k2].id = added[k].id => k2 = k
    /\ \A j \in 1..Len(trace) :
           (trace[j].ev = "sent" /\ trace[j].result = "Success")
               => \E k \in 1..Len(added) : ConfirmedAt(j, k)

\* one call was cancelled or corrected and a later one confirmed: one
\* invocation of the add callback, for the confirmed call only
C15_Witness ==
    /\ Len(added) = 1
    /\ pendingToolCall = NoCall
    /\ \E i \in 1..Len(trace), j \in 1..Len(trace) :
           /\ i < j
           /\ trace[i].ev = "sent"
           /\ trace[i].kind = "functionResponse"
           /\ trace[i].result \in {"User cancelled.", "Correction"}
           /\ ConfirmedAt(j, 1)

\* the first message sent to the session of call i after the call became
\* pending is the functionResponse for that call
AnsweredFirst(i) ==
    \A j \in (i + 1)..Len(trace) :
        (/\ SentToSessionOf(j, i)
         /\ \A m \in (i + 1)..(j - 1) : ~SentToSessionOf(m, i))
            => Answers(j, i)

\* the call held in pendingToolCall has not been answered yet
ClearedNoLaterThanSend ==
    pendingToolCall # NoCall =>
        \A j \in 1..Len(trace) :
            ~(/\ trace[j].ev = "sent"
              /\ trace[j].kind = "functionResponse"
              /\ trace[j].id = pendingToolCall.id)

\* C16: once a tool call is pending, the next message sent to its session is
\* the functionResponse with the call's name and id (Confirm, Cancel and
\* typed correction alike), no plain text reaches the session before it, and
\* pendingToolCall is cleared no later than that send
C16_ToolTurnProtocol ==
    /\ \A i \in 1..Len(trace) : trace[i].ev = "pending" => AnsweredFirst(i)
    /\ ClearedNoLaterThanSend

----------------------------------------------------------------------------
(* Claims about the battery arithmetic of calculateSystemTotals, checked     *)
(* under SpecTotals                                                          *)

\* the battery holds a positive capacity, a positive voltage and an initial
\* state of charge within [0, 100]
PlainBattery ==
    /\ FiniteField(battery.capacityAh) /\ NGt(battery.capacityAh.v, Zero)
    /\ FiniteField(battery.voltage) /\ NGt(battery.voltage.v, Zero)
    /\ FieldWithin(battery.initialSoC, 0, 100)

\* clamp(initialSoC / 100 * capacityWh + netWh, 0, capacityWh) / capacityWh * 100
ClampedSoC(initialSoC, capacityWh, netWh) ==
    NMul(NDiv(NMin(capacityWh,
                   NMax(Zero, NAdd(NMul(NDiv(initialSoC, Int2Num(100)), capacityWh), netWh))),
              capacityWh),
         Int2Num(100))

\* netWh and finalSoC of the totals follow the formulas of the specification
TotalsFollowFormula ==
    /\ totalsResult.netWh = NSub(totalsResult.dailyWhGenerated, totalsResult.dailyWhConsumed)
    /\ totalsResult.finalSoC =
           ClampedSoC(battery.initialSoC.v,
                      NMul(battery.capacityAh.v, battery.voltage.v),
                      totalsResult.netWh)

\* C22: netWh = dailyWhGenerated - dailyWhConsumed and finalSoC =
\* clamp(initialSoC/100 * capacityWh + netWh, 0, capacityWh) / capacityWh * 100
\* for every initialSoC in [0, 100], 0 included: a battery that starts at 0 %
\* with netWh <= 0 ends at 0 %.
C22_FinalSoCFormula ==
    ("totals" \in called /\ PlainBattery) => TotalsFollowFormula

\* the same for an initial state of charge above 0
FinalSoCForPositiveStart ==
    ("totals" \in called /\ PlainBattery /\ NGt(battery.initialSoC.v, Zero))
        => TotalsFollowFormula

----------------------------------------------------------------------------
(* Claims about the cloud and peak scenarios, checked under SpecPanel        *)

\* F of the specification: the forecast's cloudy hours when they are a finite
\* number and the forecast mode is monthAvg, else 0
AvailableCloudyHours(b, sf) ==
    IF b.forecastMode = "monthAvg" /\ FiniteField(OptField(sf, "cloudy"))
    THEN sf.cloudy.v
    ELSE Zero

\* max(F, 0.60 * baseline, 0.20 * baseline)
SpecCloudHours(f, baseline) ==
    NMax(NMax(f, NMul(baseline, Rat(60, 100))), NMul(baseline, Rat(20, 100)))

\* source i is a solar source that the loop of calculateAutonomy reaches
EnabledSolar(i) == charging[i].type = "solar" /\ charging[i].enabled # Bool(FALSE)

\* C25: in the cloud scenario the hours of each enabled solar source equal
\* max(F, 0.60 * baseline, 0.20 * baseline), F being the forecast's cloudy
\* hours when available in mode monthAvg and 0 otherwise (in mode 'now' a
\* supplied cloudy value is ignored).
C25_CloudHoursFormula ==
    ("autonomy" \in called /\ scenario = "cloud") =>
        \A i \in 1..Len(charging) :
            EnabledSolar(i) =>
                sourceHours[i].h =
                    SpecCloudHours(AvailableCloudyHours(battery, solarForecast),
                                   BaselineHours(charging[i], solarForecast))

\* the fields of source i that enter the generation are finite and not negative
NonNegativeSource(i) ==
    /\ charging[i].hours = Undefined \/ FieldWithin(charging[i].hours, 0, 24)
    /\ FiniteField(charging[i].input) /\ NGe(charging[i].input.v, Zero)
    /\ FiniteField(charging[i].efficiency) /\ NGe(charging[i].efficiency.v, Zero)
    /\ FiniteField(charging[i].quantity) /\ NGe(charging[i].quantity.v, Zero)

\* C28: with non-negative source fields the cloud scenario never gives a
\* source more hours than the peak scenario gives it on the same inputs, and
\* the cloud scenario's netWh is never above the peak scenario's netWh.
C28_CloudNotAbovePeak ==
    ("autonomy" \in called /\ scenario = "cloud"
        /\ \A i \in 1..Len(charging) : NonNegativeSource(i)) =>
        /\ \A i \in 1..Len(charging) :
               EnabledSolar(i) =>
                   NLe(sourceHours[i].h,
                       ScenarioHours(charging[i], battery, "peak", solarForecast))
        /\ NLe(autonomyResult.netWh,
               calculateAutonomy(items, charging, battery, "peak", solarForecast,
                                 currentSoC).netWh)

\* the same for a forecast that supplies no cloudy hours above its sunny hours
CloudNotAbovePeakForOrderedForecast ==
    (FiniteField(OptField(solarForecast, "cloudy"))
        => (/\ FiniteField(OptField(solarForecast, "sunny"))
            /\ NLe(solarForecast.cloudy.v, solarForecast.sunny.v)))
    => C28_CloudNotAbovePeak

----------------------------------------------------------------------------
(* calculateSystemTotals and calculateAutonomy on sources of any efficiency  *)
(* and batteries of any initial state of charge, under SpecScenario          *)

\* a charging source that carries the optional unit field
WithUnit(source, unit) ==
    [f \in DOMAIN source \cup {"unit"} |-> IF f = "unit" THEN unit ELSE source[f]]

\* manual solar (5015 Wh), a generator (5000 Wh), an auto solar source of
\* efficiency 0, a disabled generator, a turbine of unbounded input at rest
ScenarioSources ==
    {WithUnit(Source("solar", Bool(FALSE), N(5), N(1180), Q(85, 100), N(1), Undefined), "W"),
     WithUnit(Source("generator", Undefined, N(5), N(1000), N(1), N(1), Bool(TRUE)), "A"),
     WithUnit(Source("solar", Bool(TRUE), N(0), N(200), N(0), N(2), Bool(TRUE)), "W"),
     WithUnit(Source("generator", Undefined, N(5), N(1000), N(1), N(1), Bool(FALSE)), "W"),
     WithUnit(Source("wind", Undefined, N(0), NumV(PosInf), Q(1, 2), N(1), Undefined), "A")}

\* no load, a 6000 Wh load, a 12 Wh load
ScenarioLoads ==
    {<<>>,
     <<Item(DC_LOADS, N(250), N(24), N(100), N(1), Undefined)>>,
     <<Item(DC_LOADS, N(1), N(12), N(100), N(1), Bool(TRUE))>>}

ScenarioBatteries ==
    {Battery(c, v, s, "now", NoForecast) :
        c \in {N(400), N(9999)}, v \in {N(12), N(24)}, s \in {N(0), N(50), N(100)}}
    \cup {Battery(c, v, s, "monthAvg", Forecast(Bool(FALSE), Bool(TRUE), N(3), N(6), N(2))) :
        c \in {N(400), N(9999)}, v \in {N(12), N(24)}, s \in {N(0), N(50), N(100)}}

InitScenario ==
    /\ items \in ScenarioLoads
    /\ charging \in SeqsUpTo(ScenarioSources, MaxSources)
    /\ battery \in ScenarioBatteries
    /\ scenario = "current"
    /\ solarForecast = NoSolarForecast
    /\ currentSoC = Undefined
    /\ NoResults
    /\ ChatIdle
    /\ ForecastIdle

SpecScenario == InitScenario /\ [][Next]_vars

\* the fields of a source are finite, its efficiency lies within [0, 1] and
\* its quantity is at least 1
PlainSource(source) ==
    /\ FiniteField(source.input) /\ NGe(source.input.v, Zero)
    /\ FieldWithin(source.hours, 0, 24)
    /\ FieldWithin(source.efficiency, 0, 1)
    /\ FiniteField(source.quantity) /\ NGe(source.quantity.v, Int2Num(1))

\* input * hours * efficiency * quantity of one source, the hours resolved by
\* getEffectiveSolarHours for a solar source and manual otherwise
ExpectedSourceWh(source, b) ==
    NMul(NMul(NMul(source.input.v,
                   IF source.type = "solar" THEN getEffectiveSolarHours(source, b)
                   ELSE source.hours.v),
              source.efficiency.v),
         source.quantity.v)

\* the sum of ExpectedSourceWh over the sources that are not disabled
RECURSIVE ExpectedGeneratedWh(_, _)
ExpectedGeneratedWh(srcs, b) ==
    IF srcs = <<>> THEN Zero
    ELSE NAdd(ExpectedGeneratedWh(Tail(srcs), b),
              IF Head(srcs).enabled # Bool(FALSE) THEN ExpectedSourceWh(Head(srcs), b) ELSE Zero)

AllPlainSources == \A i \in 1..Len(charging) : PlainSource(charging[i])

\* C21: each enabled source contributes exactly input * hours * efficiency *
\* quantity to dailyWhGenerated, for every efficiency in [0, 1], 0 included,
\* whatever the battery voltage and the unit field are.
C21_GenerationFormula ==
    ("totals" \in called /\ AllPlainSources) =>
        totalsResult.dailyWhGenerated = ExpectedGeneratedWh(charging, battery)

\* the same for sources whose efficiency is above 0
GenerationForPositiveEfficiency ==
    ("totals" \in called /\ AllPlainSources
        /\ \A i \in 1..Len(charging) : NGt(charging[i].efficiency.v, Zero)) =>
        totalsResult.dailyWhGenerated = ExpectedGeneratedWh(charging, battery)

\* C23: in the current scenario the netWh of calculateAutonomy equals the
\* netWh of calculateSystemTotals on the same loads, sources and battery,
\* for every input.
C23_CurrentNetEqualsTotals ==
    ({"totals", "autonomy"} \subseteq called /\ scenario = "current") =>
        autonomyResult.netWh = totalsResult.netWh

\* the same when every source has a finite input
CurrentNetEqualsTotalsForFiniteInput ==
    ({"totals", "autonomy"} \subseteq called /\ scenario = "current"
        /\ \A i \in 1..Len(charging) : FiniteField(charging[i].input)) =>
        autonomyResult.netWh = totalsResult.netWh

\* C24: in the zero scenario calculateAutonomy takes the generation as 0
\* whatever sources and forecast are supplied: its netWh is minus the
\* dailyWhConsumed of calculateSystemTotals on the same loads, and its result
\* is the one for no sources and no forecast.
C24_ZeroIgnoresSources ==
    ({"totals", "autonomy"} \subseteq called /\ scenario = "zero") =>
        /\ autonomyResult.netWh = NNeg(totalsResult.dailyWhConsumed)
        /\ autonomyResult =
               calculateAutonomy(items, <<>>, battery, "zero", NoSolarForecast, currentSoC)

\* the zero scenario was computed for a system whose sources generate energy,
\* with a forecast supplied, and a load gave it a deficit
C24_ZeroWithGeneratingSources ==
    /\ {"totals", "autonomy"} \subseteq called
    /\ scenario = "zero"
    /\ NGt(totalsResult.dailyWhGenerated, Zero)
    /\ solarForecast.present
    /\ NLt(autonomyResult.netWh, Zero)
    /\ IsFinite(autonomyResult.days)

\* the basis state of charge: the supplied currentSoC or else the battery's
\* initialSoC in the current scenario, 100 in the others
ExpectedBasisSoC(b, scen, soc) ==
    IF scen = "current" THEN (IF soc # Undefined THEN soc ELSE b.initialSoC) ELSE N100

\* the runway of a battery for a net and a basis state of charge
RunwayOnBasis(b, netWh, basisSoC) ==
    AutonomyFromNet(netWh,
                    NMul(NumberOr(b.capacityAh, Int2Num(400)),
                         NumberOr(b.voltage, Int2Num(24))),
                    basisSoC)

Deficit == "autonomy" \in called /\ NLt(autonomyResult.netWh, Zero)

\* C26: under a deficit the runway is computed from the supplied currentSoC,
\* or from the battery's initialSoC when none is supplied (0 included, which
\* gives 0 days), in the current scenario, and from 100% in the cloud and
\* zero scenarios.
C26_BasisSoC ==
    Deficit =>
        autonomyResult =
            RunwayOnBasis(battery, autonomyResult.netWh,
                          ExpectedBasisSoC(battery, scenario, currentSoC))

\* the same for batteries whose initialSoC is not 0
BasisSoCForPositiveStart ==
    (Deficit /\ ToNumber(battery.initialSoC) # Zero) =>
        autonomyResult =
            RunwayOnBasis(battery, autonomyResult.netWh,
                          ExpectedBasisSoC(battery, scenario, currentSoC))

\* (capacityAh * voltage * basisSoC / 100) / |net|
ExpectedDays(b, netWh, basisSoC) ==
    NDiv(NMul(NMul(ToNumber(b.capacityAh), ToNumber(b.voltage)),
              NDiv(ToNumber(basisSoC), Int2Num(100))),
         NAbs(netWh))

\* days and hours = 24 * days, both Infinity when days is not finite or
\* exceeds 9999
ExpectedRunway(days, netWh) ==
    IF IsFinite(days) /\ NLe(days, Int2Num(9999))
    THEN [days |-> days, hours |-> NMul(Int2Num(24), days), netWh |-> netWh]
    ELSE [days |-> PosInf, hours |-> PosInf, netWh |-> netWh]

DaysAndHoursAgree(r) ==
    \/ r.days = PosInf /\ r.hours = PosInf
    \/ IsFinite(r.days) /\ IsFinite(r.hours) /\ r.hours = NMul(Int2Num(24), r.days)

\* C27: under a deficit days = (capacityAh * voltage * basisSoC / 100) / |net|
\* and hours = 24 * days, both Infinity when days is not finite or exceeds
\* 9999; in every result days and hours are both Infinity or both finite with
\* hours = 24 * days.
C27_RunwayFormula ==
    ("autonomy" \in called) =>
        /\ DaysAndHoursAgree(autonomyResult)
        /\ Deficit =>
               autonomyResult =
                   ExpectedRunway(
                       ExpectedDays(battery, autonomyResult.netWh,
                                    ExpectedBasisSoC(battery, scenario, currentSoC)),
                       autonomyResult.netWh)

\* days and hours agree in every result
DaysAndHoursAlwaysAgree == ("autonomy" \in called) => DaysAndHoursAgree(autonomyResult)

\* the formula with the basis the code takes, away from days = 9999
RunwayFormulaOffBound ==
    (Deficit /\ ExpectedDays(battery, autonomyResult.netWh,
                             BasisSoC(battery, scenario, currentSoC)) # Int2Num(9999)) =>
        autonomyResult =
            ExpectedRunway(
                ExpectedDays(battery, autonomyResult.netWh,
                             BasisSoC(battery, scenario, currentSoC)),
                autonomyResult.netWh)

\* the formula with the basis the code takes, at days = 9999 as well
RunwayFormulaAtBound ==
    Deficit =>
        autonomyResult =
            ExpectedRunway(
                ExpectedDays(battery, autonomyResult.netWh,
                             BasisSoC(battery, scenario, currentSoC)),
                autonomyResult.netWh)

----------------------------------------------------------------------------
(* The forecast effect of App (App.tsx:131-209) with the handlers that     *)
(* change its dependencies.  updateForecast is split at its awaits; a      *)
(* fetched value is kept as the place and month it was fetched for.        *)

MaxRequests == 2    \* updateForecast invocations suspended at the same time

Locations == {"", "2048", "Perth"}       \* texts of the location box
Suggestions == {"Perth"}                 \* names the dropdown offers
Months == {"2026-11-05", "2026-07-05"}   \* values of forecastMonth

\* line 209: the dependency array of the effect
Deps(b) == <<b.location, b.geo, b.forecastMode, b.forecastMonth>>

\* the battery that the closure of updateForecast holds
Closure(b) ==
    [armed |-> TRUE, location |-> b.location, geo |-> b.geo,
     forecastMode |-> b.forecastMode, forecastMonth |-> b.forecastMonth]

\* lines 133-140 and 207: the effect of the render that shows battery b
RunEffect(b) ==
    /\ appBattery' = [b EXCEPT !.forecast = [@ EXCEPT !.loading = TRUE, !.error = FALSE]]
    /\ timer' = Closure(b)

\* a setBattery of a handler: when a dependency changed (a geo object built
\* by the handler is always a new one) the cleanup of line 208 clears the
\* timer and the effect runs again
Commit(b, newGeo) ==
    IF newGeo \/ Deps(b) # Deps(appBattery)
    THEN RunEffect(b)
    ELSE appBattery' = b /\ timer' = timer

\* lines 51-80 and the first run of the effect
InitForecast ==
    /\ \E loc \in Locations, mode \in {"now", "monthAvg"} :
          /\ appBattery = [location |-> loc, geo |-> NoGeo, forecastMode |-> mode,
                           forecastMonth |-> "2026-11-05",
                           forecast |-> [UnfetchedForecast EXCEPT !.loading = TRUE]]
          /\ timer = Closure(appBattery)
    /\ requests = <<>>
    /\ items = <<>>
    /\ charging = <<>>
    /\ battery = Battery(N(400), N(24), N(100), "now", NoForecast)
    /\ scenario = "current"
    /\ solarForecast = NoSolarForecast
    /\ currentSoC = Undefined
    /\ NoResults
    /\ ChatIdle

handleLocationChange ==
    /\ \E val \in Locations :
          Commit([appBattery EXCEPT !.location = val, !.geo = NoGeo], FALSE)
    /\ UNCHANGED requests
    /\ UNCHANGED coreVars
    /\ UNCHANGED chatVars

handleSelectLocation ==
    /\ \E name \in Suggestions :
          Commit([appBattery EXCEPT !.location = name,
                                    !.geo = [present |-> TRUE, name |-> name]], TRUE)
    /\ UNCHANGED requests
    /\ UNCHANGED coreVars
    /\ UNCHANGED chatVars

\* line 377: the Now checkbox, handleUpdateBattery('forecastMode', ...)
UpdateForecastMode ==
    /\ Commit([appBattery EXCEPT
                  !.forecastMode = IF @ = "now" THEN "monthAvg" ELSE "now"], FALSE)
    /\ UNCHANGED requests
    /\ UNCHANGED coreVars
    /\ UNCHANGED chatVars

\* lines 380-414: the month and year boxes, which take no pointer events in
\* mode now, handleUpdateBattery('forecastMonth', ...)
UpdateForecastMonth ==
    /\ appBattery.forecastMode = "monthAvg"
    /\ \E month \in Months :
          Commit([appBattery EXCEPT !.forecastMonth = month], FALSE)
    /\ UNCHANGED requests
    /\ UNCHANGED coreVars
    /\ UNCHANGED chatVars

\* lines 142-155: the timer fires and updateForecast runs to its first await
updateForecast ==
    /\ timer.armed
    /\ timer.location = "" \/ Len(requests) < MaxRequests
    /\ timer' = NoTimer
    /\ requests' =
           IF timer.location = "" THEN requests
           ELSE Append(requests,
                       [location |-> timer.location,
                        forecastMode |-> timer.forecastMode,
                        forecastMonth |-> timer.forecastMonth,
                        stage |-> IF timer.geo.present THEN "fetch" ELSE "geocode",
                        place |-> IF timer.geo.present THEN timer.geo.name ELSE ""])
    /\ UNCHANGED appBattery
    /\ UNCHANGED coreVars
    /\ UNCHANGED chatVars

\* lines 155-179 and 194-203: geocodeLocation resolves, with a place or null
GeocodeResolves ==
    /\ \E i \in 1..Len(requests), found \in BOOLEAN :
          /\ requests[i].stage = "geocode"
          /\ IF found
             THEN /\ requests' = [requests EXCEPT ![i] =
                                     [@ EXCEPT !.stage = "fetch", !.place = requests[i].location]]
                  /\ UNCHANGED appBattery
             ELSE /\ requests' = RemoveAt(requests, i)
                  /\ appBattery' = [appBattery EXCEPT !.forecast =
                                       [@ EXCEPT !.loading = FALSE, !.error = TRUE]]
    /\ UNCHANGED timer
    /\ UNCHANGED coreVars
    /\ UNCHANGED chatVars

\* lines 164-179: forecastData of a request
ForecastData(forecast, r) ==
    IF r.forecastMode = "now"
    THEN [forecast EXCEPT
             !.nowHours = [present |-> TRUE, place |-> r.place, month |-> ""],
             !.sunnyHours = NoReading,
             !.cloudyHours = NoReading]
    ELSE [forecast EXCEPT
             !.sunnyHours = [present |-> TRUE, place |-> r.place, month |-> r.forecastMonth],
             !.cloudyHours = [present |-> TRUE, place |-> r.place, month |-> r.forecastMonth],
             !.nowHours = NoReading]

\* lines 165, 173 and 181-193: fetchNowSolarPSH / fetchMonthAvgSolarPSH resolves
FetchResolves ==
    /\ \E i \in 1..Len(requests) :
          /\ requests[i].stage = "fetch"
          /\ appBattery' = [appBattery EXCEPT !.forecast =
                               [ForecastData(@, requests[i]) EXCEPT
                                   !.loading = FALSE, !.fetched = TRUE]]
          /\ requests' = RemoveAt(requests, i)
    /\ UNCHANGED timer
    /\ UNCHANGED coreVars
    /\ UNCHANGED chatVars

NextForecast ==
    \/ handleLocationChange
    \/ handleSelectLocation
    \/ UpdateForecastMode
    \/ UpdateForecastMonth
    \/ updateForecast
    \/ GeocodeResolves
    \/ FetchResolves

SpecForecast == InitForecast /\ [][NextForecast]_vars

----------------------------------------------------------------------------
(* Claims about the forecast effect, checked under SpecForecast            *)

\* no timer is pending and no updateForecast is suspended
Quiescent == ~timer.armed /\ requests = <<>>

\* C29: after a change of location, geo, forecastMode or forecastMonth has
\* set forecast.loading, loading becomes false again once the timer has fired
\* and every fetch has resolved or rejected, for every location, the empty
\* one included: the forecast is never left loading with nothing pending.
C29_LoadingEnds == Quiescent => ~appBattery.forecast.loading

\* the same for a location that is not empty
LoadingEndsForNonEmptyLocation ==
    (Quiescent /\ appBattery.location # "") => ~appBattery.forecast.loading

\* a request for the battery as it is now is pending
Outstanding ==
    \/ timer.armed
    \/ \E i \in 1..Len(requests) :
          /\ requests[i].location = appBattery.location
          /\ requests[i].forecastMode = appBattery.forecastMode
          /\ requests[i].forecastMonth = appBattery.forecastMonth

\* the stored hours of the current mode are those of the current location
CurrentReading ==
    IF appBattery.forecastMode = "now"
    THEN /\ appBattery.forecast.nowHours.present
         /\ appBattery.forecast.nowHours.place = appBattery.location
    ELSE /\ appBattery.forecast.sunnyHours.present
         /\ appBattery.forecast.sunnyHours.place = appBattery.location

\* loading stays set while the timer of the latest change is pending
LoadingWhileTimerPending == timer.armed => appBattery.forecast.loading

\* a forecast shown as fetched is the one of the current location and mode
FetchedIsCurrent ==
    (appBattery.forecast.fetched /\ ~appBattery.forecast.loading) => CurrentReading

\* a forecast shown as fetched, without an error, with nothing pending, is the
\* one of the current location and mode
SettledFetchedIsCurrent ==
    (Quiescent /\ appBattery.forecast.fetched /\ ~appBattery.forecast.loading
        /\ ~appBattery.forecast.error) => CurrentReading

\* C30: the response of a superseded request never overwrites battery.forecast
\* and never clears loading while the newer request is outstanding, and
\* whenever forecast.fetched && !forecast.loading holds the stored nowHours /
\* sunnyHours were fetched for the current location and forecastMode, also
\* after a failed fetch.
C30_NoStaleForecast ==
    /\ Outstanding => appBattery.forecast.loading
    /\ (appBattery.forecast.fetched /\ ~appBattery.forecast.loading) => CurrentReading

====
